---- MODULE Spec2Model ----
(***************************************************************************)
(* Verification model of the CS2 trade-up scanner scripts:                 *)
(*   smart_scanner.py          RateLimitedScanner, main                    *)
(*   tradeup_scanner.py        get_market_price                            *)
(*   collection_analyzer.py    CollectionAnalyzer.rate_limit / get_price   *)
(*   rate_limit_handler.py     RateLimitHandler                            *)
(*   intelligent_knife_scraper.py  IntelligentKnifeScraper.scrape_search   *)
(* Prices are whole cents, times are whole seconds, item names are small   *)
(* integers.                                                               *)
(***************************************************************************)
EXTENDS Integers, Sequences, FiniteSets, TLC

VARIABLES
    \* ---- smart_scanner.py ----
    table,              \* FOCUSED_COLLECTIONS, as lists of item names
    elapsed,            \* time.time() - last request, saturating at BASE_DELAY
    price_cache,        \* RateLimitedScanner.price_cache (item -> price)
    cache_file,         \* contents of CACHE_FILE on disk
    request_count,      \* RateLimitedScanner.request_count
    last_request_time,  \* which request's send time it holds (0: none yet)
    pc,                 \* position of the process
    scan,               \* locals of main / analyze_collection
    attempt,            \* loop variable of get_price_with_retry
    pending,            \* price get_price_with_retry is about to return
    results,            \* main: results
    report,             \* main: the sorted report (df), None until printed
    ret,                \* history: outcome of the last completed fetch
    issued,             \* history: requests.get calls of the current fetch
    throttles,          \* history: 429 responses of the current fetch
    shortestGap,        \* history: shortest gap between consecutive requests
    since_flush,        \* history: prices fetched since save_cache was last called
    \* ---- tradeup_scanner.py ----
    tu_price_cache,     \* the module's price_cache
    tu_elapsed,         \* time since the last request, saturating at TU_SLEEP
    tu_requests,        \* history: requests.get calls so far
    tu_shortestGap,     \* history: shortest gap between consecutive requests
    tu_ret,             \* history: outcome of the last get_market_price
    \* ---- collection_analyzer.py ----
    an_elapsed,         \* time.time() - self.last_request, saturating
    an_last_request,    \* which request's time self.last_request holds (0: none)
    an_shortestGap,     \* history: shortest gap between consecutive requests
    an_ret,             \* history: value of the last get_price
    \* ---- rate_limit_handler.py, intelligent_knife_scraper.py ----
    vpn,                \* vpn_type if use_vpn, else "none"
    rate_limit_hits,    \* RateLimitHandler.rate_limit_hits
    ip_switch_count,    \* RateLimitHandler.ip_switch_count
    since_ip_switch,    \* now - last_ip_switch_time, saturating; None if unset
    successful_scrapes, \* IntelligentKnifeScraper.successful_scrapes
    retry_count,        \* retry_count of the innermost scrape_search
    since_switch_call,  \* history: time since switch_vpn_server was last called
    shortestSwitchGap,  \* history: shortest time between two such calls
    lastWait,           \* history: the last handle_rate_limit's waits
    run,                \* history: successful scrapes since the last throttle
    resetRun,           \* history: run when the counter was last reset
    \* ---- tradeup_scanner.py: evaluate_collection, run_full_scan ----
    tu_pc,              \* position of the script
    tu_scan,            \* locals of evaluate_collection
    tu_results,         \* run_full_scan: results
    tu_df,              \* what run_full_scan returned, once it has
    \* ---- manual_analyzer.py ----
    ma_opportunities,   \* batch_analyze: opportunities
    ma_results,         \* batch_analyze: results
    ma_df,              \* what batch_analyze returned, once it has
    \* ---- market_scraper.py ----
    mk_pc,              \* position of test_scraper
    mk_idx,             \* test_scraper: which item of test_items is next
    mk_cache,           \* SteamMarketScraper.cache
    mk_file,            \* contents of market_prices.json
    mk_request_count,   \* SteamMarketScraper.request_count
    mk_elapsed,         \* time.time() - last_request_time, saturating
    mk_attempt,         \* loop variable of get_lowest_buy_order
    mk_call,            \* history: sleeps and requests of the current call
    mk_ret,             \* history: the last completed get_lowest_buy_order
    mk_run,             \* history: histogram requests and periodic saves so far
    \* ---- intelligent_knife_scraper.py, comprehensive_knife_list.py ----
    kn_pc,              \* position of main
    kn_checklist,       \* IntelligentKnifeScraper.checklist
    kn_collected,       \* IntelligentKnifeScraper.collected_knives
    kn_queries,         \* main: queries, the current batch
    kn_qi,              \* main: which query of the batch is next
    kn_call,            \* history: the current chain of scrape_search calls
    kn_last,            \* history: the last scrape_search call of main
    kn_returned,        \* history: every list a scrape_search has returned
    kn_prev,            \* history: the batch before, and the checklist then
    kn_mark             \* history: the last mark_knife_found call

scannerVars == <<table, elapsed, price_cache, cache_file, request_count,
                 last_request_time, pc, scan, attempt, pending, results,
                 report, ret, issued, throttles, shortestGap,
                 since_flush>>

tradeupVars == <<tu_price_cache, tu_elapsed, tu_requests, tu_shortestGap, tu_ret>>

analyzerVars == <<an_elapsed, an_last_request, an_shortestGap, an_ret>>

scraperVars == <<vpn, rate_limit_hits, ip_switch_count, since_ip_switch,
                 successful_scrapes, retry_count, since_switch_call,
                 shortestSwitchGap, lastWait, run, resetRun>>

tuScanVars == <<tu_pc, tu_scan, tu_results, tu_df>>

manualVars == <<ma_opportunities, ma_results, ma_df>>

marketVars == <<mk_pc, mk_idx, mk_cache, mk_file, mk_request_count,
                mk_elapsed, mk_attempt, mk_call, mk_ret, mk_run>>

knifeVars == <<kn_pc, kn_checklist, kn_collected, kn_queries, kn_qi, kn_call,
               kn_last, kn_returned, kn_prev, kn_mark>>

vars == <<scannerVars, tradeupVars, analyzerVars, scraperVars, tuScanVars,
          manualVars, marketVars, knifeVars>>

\* What the steps of one script leave alone: the state of the others.
\* (A step of evaluate_collection is also a step of get_market_price, and a
\* step of main in the knife scraper one of scrape_search: the frames of the
\* inner steps leave the outer script's state to the outer step.)
notScanner == <<tradeupVars, analyzerVars, scraperVars, tuScanVars, manualVars,
                marketVars, knifeVars>>
notPacing == <<scannerVars, scraperVars, manualVars, marketVars, knifeVars>>
notScraper == <<scannerVars, tradeupVars, analyzerVars, tuScanVars, manualVars,
                marketVars>>
notManual == <<scannerVars, tradeupVars, analyzerVars, scraperVars, tuScanVars,
               marketVars, knifeVars>>
notMarket == <<scannerVars, tradeupVars, analyzerVars, scraperVars, tuScanVars,
               manualVars, knifeVars>>
notKnives == <<scannerVars, tradeupVars, analyzerVars, tuScanVars, manualVars,
               marketVars>>

(***************************************************************************)
(* Bounds of the model                                                     *)
(***************************************************************************)
MaxPrice == 2
MaxLatency == 1
MaxItems == 2
MaxRequests == 4
MaxScrapes == 6
MaxHits == 6
MaxSwitches == 2

(***************************************************************************)
(* Program constants                                                       *)
(***************************************************************************)
BASE_DELAY == 10
MAX_RETRIES == 3
BACKOFF_MULTIPLIER == 2
SAVE_EVERY == 10
TU_SLEEP == 6
REQUEST_DELAY == 10
THROTTLE_SLEEP == 30

None == -1
Inf == 1000000

Prices == 0..MaxPrice
Latencies == 0..MaxLatency

Min(a, b) == IF a < b THEN a ELSE b
Max(a, b) == IF a > b THEN a ELSE b

EmptyCache == [i \in {} |-> 0]

\* Python truthiness of an Optional[float]: None and 0.0 are both falsy.
Truthy_NotZero(v) == v # 0
Truthy_NotNone(v) == v # None
Truthy(v) == v # None /\ v # 0

(***************************************************************************)
(* smart_scanner.py: the cache file                                        *)
(***************************************************************************)
\* What the file holds: nothing (no file), a complete JSON mapping, or a
\* truncated / partially written text that json.load rejects.
FileMissing == [state |-> "missing", data |-> EmptyCache]
FileCorrupt == [state |-> "corrupt", data |-> EmptyCache]
FileOf(m) == [state |-> "ok", data |-> m]

\* load_cache: {} without a file, the mapping of a well-formed file;
\* json.load raises on anything else.
LoadRaises(f) == f.state = "corrupt"
load_cache(f) == IF f.state = "ok" THEN f.data ELSE EmptyCache

(***************************************************************************)
(* smart_scanner.py: get_price_with_retry                                  *)
(***************************************************************************)
\* The code compares the time since the last request only with the minimum
\* interval, so the model keeps it up to that interval.
Saturate(t, cap) == IF t < cap THEN t ELSE cap

\* Lines 64-68: the sleep before a request, e seconds after the last one.
PaceWait(e) == IF e < BASE_DELAY THEN BASE_DELAY - e ELSE 0

\* Lines 83 and 115: wait_time = delay * BACKOFF_MULTIPLIER * (attempt + 1).
BackoffWait(a) == BASE_DELAY * BACKOFF_MULTIPLIER * (a + 1)

\* Line 55: if item_name in self.price_cache.
CacheHit_Never(cache, item) == FALSE
CacheHit(cache, item) == item \in DOMAIN cache

\* Line 61: for attempt in range(MAX_RETRIES).
RetryRange_OneMore == 0..MAX_RETRIES
RetryRange == 0..(MAX_RETRIES - 1)

\* Lines 81-86 and 112-119: which responses make the loop sleep before it
\* goes on: a 429 always, an exception of requests while attempts are left.
\* Everything else returns at once.
Sleeps_AnyFailure(kind, a) == kind # "ok" /\ a < MAX_RETRIES - 1
Sleeps(kind, a) ==
    \/ kind = "throttle"
    \/ /\ kind \in {"connerr", "httperr"}
       /\ a < MAX_RETRIES - 1

\* Line 103: self.price_cache[item_name] = price.
StorePrice_Evicting(cache, item, price) == [i \in {item} |-> price]
StorePrice(cache, item, price) ==
    [i \in DOMAIN cache \cup {item} |-> IF i = item THEN price ELSE cache[i]]

\* Line 107: if self.request_count % 10 == 0.
FlushDue(cnt) == cnt % SAVE_EVERY = 0

\* What one requests.get can come back with.
\*   connerr    requests.get raises (timeout, connection error)
\*   httperr    a status other than 200 / 429: raise_for_status raises
\*   throttle   status 429
\*   nosuccess  JSON with success = false
\*   noprice    JSON without lowest_price, or with an empty one
\*   badprice   lowest_price text that float() rejects
\*   ok         lowest_price text that parses to price
FailKinds == {"connerr", "httperr", "throttle", "nosuccess", "noprice", "badprice"}
Responses ==
    {[kind |-> k, price |-> None] : k \in FailKinds}
        \cup {[kind |-> "ok", price |-> p] : p \in Prices}
QuietResponses ==
    {[kind |-> "nosuccess", price |-> None], [kind |-> "ok", price |-> 1]}

(***************************************************************************)
(* The profit arithmetic, the same in manual_analyzer.analyze_tradeup,     *)
(* smart_scanner, tradeup_scanner and collection_analyzer                  *)
(***************************************************************************)
\* Prices are whole cents; the amounts computed from them are kept in
\* hundredths of a cent, in which 1 - STEAM_FEE_PERCENT is a whole factor.
STEAM_FEE_PERCENT == 13
TRADEUP_INPUTS == 5
HUNDREDTHS == 100

\* cost_5x_covert = covert_price * 5.
Cost5x(c) == c * TRADEUP_INPUTS * HUNDREDTHS

\* gold_after_fee = gold_price * (1 - STEAM_FEE_PERCENT).
GoldAfterFee(g) == g * (HUNDREDTHS - STEAM_FEE_PERCENT)

\* net_profit = gold_after_fee - cost_5x_covert, as the exact amount.
NetProfit(c, g) == GoldAfterFee(g) - Cost5x(c)

\* The code computes in binary floating point: covert_price * 5 and
\* gold_price * 0.87 are each rounded to a double, so their difference is
\* the exact amount plus a rounding error far below a hundredth of a cent.
\* The error decides the sign only where the exact amount is 0; there it
\* falls either way or not at all, depending on the pair.  For 2.61 with
\* 15.00 it is above 0: 2.61 * 5 is 13.049999999999999, 15.00 * 0.87 is
\* 13.05 and the difference 1.78e-15.  The sign of the error: -1, 0 or +1.
RoundingErrors(c, g) ==
    IF NetProfit(c, g) # 0 \/ c = 0 THEN {0}
    ELSE IF c = 261 THEN {1}
    ELSE {-1, 0, 1}

\* net_profit > 0, for the exact amount n computed with rounding error e.
Positive(n, e) == n > 0 \/ (n = 0 /\ e > 0)

\* gold_price / covert_price as the fraction it is; the caller has made
\* sure that den is not 0.
Quotient(num, den) == [num |-> num, den |-> den]

\* price_ratio = gold_price / covert_price if covert_price > 0 else 0.
price_ratio_unguarded(c, g) ==
    IF c = 0 THEN [num |-> 0, den |-> 0] ELSE Quotient(g, c)
price_ratio(c, g) == IF c > 0 THEN Quotient(g, c) ELSE Quotient(0, 1)

(***************************************************************************)
(* smart_scanner.py: analyze_collection and main                           *)
(***************************************************************************)
\* Locals at the start of analyze_collection for collection c.
StartCollection(c) ==
    [col |-> c, phase |-> "covert", idx |-> 1,
     cheapest_covert_price |-> Inf, cheapest_covert_name |-> None,
     cheapest_gold_price |-> Inf, cheapest_gold_name |-> None]

\* The item the evaluator is about to look up.  The gold list is the vanilla
\* name followed by the sampled finish x wear names.
CurItem ==
    IF scan.phase = "covert" THEN table[scan.col].covert[scan.idx]
    ELSE table[scan.col].gold[scan.idx]

\* Lines 203-228.  A price of 0 never gets here (Truthy), so the division
\* of line 208 is written without its failure.
MakeResult(s, e) ==
    LET c == s.cheapest_covert_price
        g == s.cheapest_gold_price
    IN  [collection |-> s.col,
         covert_skin |-> s.cheapest_covert_name,
         covert_price |-> c,
         gold_item |-> s.cheapest_gold_name,
         gold_price |-> g,
         price_ratio |-> Quotient(g, c),
         cost_5x |-> Cost5x(c),
         gold_after_fee |-> GoldAfterFee(g),
         net_profit |-> NetProfit(c, g),
         rounding |-> e,
         is_profitable |-> Positive(NetProfit(c, g), e)]

\* Lines 140-148 and 182-199: what analyze_collection does with the value v
\* that get_price_with_retry returned for item.
Consume(s, item, v) ==
    LET lst == IF s.phase = "covert" THEN table[s.col].covert ELSE table[s.col].gold
        s1 == IF s.phase = "covert"
              THEN IF Truthy(v) /\ v < s.cheapest_covert_price
                   THEN [s EXCEPT !.cheapest_covert_price = v,
                                  !.cheapest_covert_name = item]
                   ELSE s
              ELSE IF Truthy(v) /\ v < s.cheapest_gold_price
                   THEN [s EXCEPT !.cheapest_gold_price = v,
                                  !.cheapest_gold_name = item]
                   ELSE s
    IN  IF s.idx < Len(lst)
        THEN [out |-> "more", scan |-> [s1 EXCEPT !.idx = s.idx + 1]]
        ELSE IF s.phase = "covert"
             THEN IF s1.cheapest_covert_name = None
                  THEN [out |-> "none", scan |-> s1]
                  ELSE [out |-> "more",
                        scan |-> [s1 EXCEPT !.phase = "gold", !.idx = 1]]
             ELSE IF s1.cheapest_gold_name = None
                  THEN [out |-> "none", scan |-> s1]
                  ELSE [out |-> "result", scan |-> s1]

\* Where main goes once the loop over the collections is past collection c:
\* the next collection, or the final save_cache (line 337).
PcAfter(c) == IF c < Len(table) THEN "fetch" ELSE "save_open"

\* get_price_with_retry returned v for the current item.
Returned(v) ==
    LET r == Consume(scan, CurItem, v)
    IN  IF r.out = "more"
        THEN /\ scan' = r.scan
             /\ results' = results
             /\ pc' = "fetch"
        \* Line 208 divides by cheapest_covert_price: were it 0, the
        \* ZeroDivisionError would reach main, which goes on with the next
        \* collection without a result.
        ELSE /\ scan' = StartCollection(scan.col + 1)
             /\ IF r.out = "result" /\ r.scan.cheapest_covert_price # 0
                THEN \E e \in RoundingErrors(r.scan.cheapest_covert_price,
                                             r.scan.cheapest_gold_price) :
                        results' = Append(results, MakeResult(r.scan, e))
                ELSE results' = results
             /\ pc' = PcAfter(scan.col)

\* An exception left analyze_collection: main logs it and continues with the
\* next collection (lines 332-334).
Raised_Aborts ==
    /\ scan' = scan
    /\ results' = results
    /\ pc' = "crashed"
Raised ==
    /\ scan' = StartCollection(scan.col + 1)
    /\ results' = results
    /\ pc' = PcAfter(scan.col)


\* A sort that puts the lowest net_profit first.
SortedAscending(rows) ==
    {t \in [1..Len(rows) -> {rows[i] : i \in 1..Len(rows)}] :
        /\ \A i \in 1..Len(rows) :
              Cardinality({j \in 1..Len(rows) : t[j] = rows[i]})
                = Cardinality({j \in 1..Len(rows) : rows[j] = rows[i]})
        /\ \A i \in 1..(Len(rows) - 1) : t[i].net_profit <= t[i + 1].net_profit}

\* pandas sort_values('net_profit', ascending=False) with the default,
\* unstable sort: any ordering of the rows with non-increasing net_profit.
SortedDescending(rows) ==
    {t \in [1..Len(rows) -> {rows[i] : i \in 1..Len(rows)}] :
        /\ \A i \in 1..Len(rows) :
              Cardinality({j \in 1..Len(rows) : t[j] = rows[i]})
                = Cardinality({j \in 1..Len(rows) : rows[j] = rows[i]})
        /\ \A i \in 1..(Len(rows) - 1) : t[i].net_profit >= t[i + 1].net_profit}

NoReturn == [item |-> None, val |-> None, outcome |-> "none",
             issued |-> 0, throttles |-> 0]

\* get_price_with_retry returns v: the history of the call is recorded and
\* analyze_collection goes on.
FinishCall(v, outcome, nIssued, nThrottles) ==
    /\ ret' = [item |-> CurItem, val |-> v, outcome |-> outcome,
               issued |-> nIssued, throttles |-> nThrottles]
    /\ issued' = 0
    /\ throttles' = 0
    /\ attempt' = 0
    /\ pending' = None
    /\ Returned(v)

\* Lines 54-57: the cache hit.
FetchCached ==
    /\ UNCHANGED notScanner
    /\ pc = "fetch"
    /\ CacheHit(price_cache, CurItem)
    /\ ret' = [item |-> CurItem, val |-> price_cache[CurItem],
               outcome |-> "cached", issued |-> 0, throttles |-> 0]
    /\ Returned(price_cache[CurItem])
    /\ UNCHANGED <<table, elapsed, price_cache, cache_file, request_count,
                   last_request_time, attempt, pending, report, issued,
                   throttles, shortestGap,
                 since_flush>>

\* The gap between this request and the one before it, kept as the shortest
\* seen so far; gaps of BASE_DELAY or more are recorded as BASE_DELAY.
GapAfter(gap, cap) ==
    IF last_request_time = 0 THEN shortestGap
    ELSE Min(IF shortestGap = None THEN cap ELSE shortestGap,
             Saturate(gap, cap))

\* Lines 61-124: one iteration of the retry loop on a cache miss.  The
\* request takes lat seconds and comes back with resp.
Attempt(lat, resp) ==
    /\ UNCHANGED notScanner
    /\ pc = "fetch"
    /\ ~CacheHit(price_cache, CurItem)
    /\ attempt \in RetryRange
    /\ LET wait == PaceWait(elapsed)
           cnt == IF resp.kind = "connerr" THEN request_count
                  ELSE request_count + 1
           nIssued == issued + 1
           nThrottles == IF resp.kind = "throttle" THEN throttles + 1
                         ELSE throttles
           sleeps == Sleeps(resp.kind, attempt)
           again == sleeps /\ (attempt + 1) \in RetryRange
       IN  /\ last_request_time' = last_request_time + 1
           /\ request_count' = cnt
           /\ shortestGap' = GapAfter(elapsed + wait, BASE_DELAY)
           /\ elapsed' = Saturate(IF sleeps THEN lat + BackoffWait(attempt)
                                   ELSE lat, BASE_DELAY)
           /\ UNCHANGED <<table, cache_file, report>>
           /\ IF again
              THEN /\ attempt' = attempt + 1
                   /\ issued' = nIssued
                   /\ throttles' = nThrottles
                   /\ UNCHANGED <<price_cache, pc, scan, pending, results, ret,
                                  since_flush>>
              ELSE IF resp.kind # "ok"
              THEN /\ UNCHANGED <<price_cache, since_flush>>
                   /\ FinishCall(None, "absent", nIssued, nThrottles)
              ELSE /\ price_cache' = StorePrice(price_cache, CurItem, resp.price)
                   /\ since_flush' = IF FlushDue(cnt) THEN 0 ELSE since_flush + 1
                   /\ IF FlushDue(cnt)
                      THEN /\ pc' = "save_open"
                           /\ pending' = resp.price
                           /\ issued' = nIssued
                           /\ throttles' = nThrottles
                           /\ UNCHANGED <<scan, attempt, results, ret>>
                      ELSE FinishCall(resp.price, "fetched", nIssued, nThrottles)

\* Lines 61-91: the request comes back with status 200 and a JSON text that
\* is not an object.  data.get raises AttributeError, which neither except
\* clause of get_price_with_retry catches: it leaves analyze_collection and
\* reaches main (lines 332-334).
FetchRaises(lat) ==
    /\ UNCHANGED notScanner
    /\ pc = "fetch"
    /\ ~CacheHit(price_cache, CurItem)
    /\ attempt \in RetryRange
    /\ last_request_time' = last_request_time + 1
    /\ request_count' = request_count + 1
    /\ shortestGap' = GapAfter(elapsed + PaceWait(elapsed), BASE_DELAY)
    /\ elapsed' = Saturate(lat, BASE_DELAY)
    /\ ret' = [item |-> CurItem, val |-> None, outcome |-> "raised",
               issued |-> issued + 1, throttles |-> throttles]
    /\ issued' = 0
    /\ throttles' = 0
    /\ attempt' = 0
    /\ pending' = None
    /\ Raised
    /\ UNCHANGED <<table, price_cache, cache_file, report, since_flush>>

\* Lines 329-331: Ctrl-C while a collection is being analyzed (in a sleep, in
\* requests.get).  KeyboardInterrupt is no Exception, so it passes through
\* get_price_with_retry to main, which leaves the loop; the final save_cache
\* and the report follow.
Interrupt ==
    /\ UNCHANGED notScanner
    /\ pc = "fetch"
    /\ ret' = [item |-> CurItem, val |-> None, outcome |-> "interrupted",
               issued |-> issued, throttles |-> throttles]
    /\ issued' = 0
    /\ throttles' = 0
    /\ attempt' = 0
    /\ pending' = None
    /\ scan' = StartCollection(Len(table) + 1)
    /\ pc' = "save_open"
    /\ UNCHANGED <<table, elapsed, price_cache, cache_file, request_count,
                   last_request_time, results, report, shortestGap,
                   since_flush>>

(***************************************************************************)
(* smart_scanner.py: save_cache, one step per file operation               *)
(***************************************************************************)
Periodic == scan.col <= Len(table)

\* The exception of a failed write leaves save_cache: out of
\* get_price_with_retry and analyze_collection into main's except clause
\* when the flush was the periodic one, out of main when it was the final
\* one (line 337 is outside the try).
SaveRaises ==
    IF Periodic
    THEN /\ ret' = [item |-> CurItem, val |-> None, outcome |-> "raised",
                    issued |-> issued, throttles |-> throttles]
         /\ issued' = 0
         /\ throttles' = 0
         /\ attempt' = 0
         /\ pending' = None
         /\ Raised
    ELSE /\ pc' = "crashed"
         /\ UNCHANGED <<ret, issued, throttles, attempt, pending, scan, results>>

\* Line 47: open(CACHE_FILE, 'w') truncates the file.
SaveOpenOk ==
    /\ UNCHANGED notScanner
    /\ pc = "save_open"
    /\ cache_file' = FileCorrupt
    /\ pc' = "save_dump"
    /\ UNCHANGED <<table, elapsed, price_cache, request_count, last_request_time,
                   scan, attempt, pending, results, report, ret, issued,
                   throttles, shortestGap,
                 since_flush>>

\* Line 47: open fails (permissions, missing directory); the file is as it was.
SaveOpenFail ==
    /\ UNCHANGED notScanner
    /\ pc = "save_open"
    /\ SaveRaises
    /\ UNCHANGED <<table, elapsed, price_cache, cache_file, request_count,
                   last_request_time, report, shortestGap,
                 since_flush>>

\* Line 48: json.dump writes the whole mapping and the file is closed.
SaveDumpOk ==
    /\ UNCHANGED notScanner
    /\ pc = "save_dump"
    /\ cache_file' = FileOf(price_cache)
    /\ IF Periodic
       THEN FinishCall(pending, "fetched", issued, throttles)
       ELSE /\ pc' = "report"
            /\ UNCHANGED <<ret, issued, throttles, attempt, pending, scan, results>>
    /\ UNCHANGED <<table, elapsed, price_cache, request_count, last_request_time,
                   report, shortestGap,
                 since_flush>>

\* Line 48: a write fails part-way (disk full); the file stays partial.
SaveDumpFail ==
    /\ UNCHANGED notScanner
    /\ pc = "save_dump"
    /\ SaveRaises
    /\ UNCHANGED <<table, elapsed, price_cache, cache_file, request_count,
                   last_request_time, report, shortestGap,
                 since_flush>>

\* The process is stopped (killed, power loss) inside save_cache.
Kill ==
    /\ UNCHANGED notScanner
    /\ pc \in {"save_open", "save_dump"}
    /\ pc' = "stopped"
    /\ UNCHANGED <<table, elapsed, price_cache, cache_file, request_count,
                   last_request_time, scan, attempt, pending, results, report,
                   ret, issued, throttles, shortestGap,
                 since_flush>>

\* Lines 339-369: the report.
Report ==
    /\ UNCHANGED notScanner
    /\ pc = "report"
    /\ \E rows \in SortedDescending(results) :
          report' = [printed |-> TRUE, rows |-> rows]
    /\ pc' = "done"
    /\ UNCHANGED <<table, elapsed, price_cache, cache_file, request_count,
                   last_request_time, scan, attempt, pending, results, ret,
                   issued, throttles, shortestGap,
                 since_flush>>


(***************************************************************************)
(* tradeup_scanner.py: get_market_price                                    *)
(***************************************************************************)
Items == 1..MaxItems

\* A data frame that has not been returned yet.
NoFrame == [returned |-> FALSE, rows |-> <<>>]

NoValue == [item |-> None, val |-> None, outcome |-> "none"]

InitTradeup ==
    /\ tu_price_cache = EmptyCache
    /\ tu_elapsed = TU_SLEEP
    /\ tu_requests = 0
    /\ tu_shortestGap = None
    /\ tu_ret = NoValue

\* Lines 33-34: the cache hit (use_cache is True at both call sites).
TuCached(item) ==
    /\ UNCHANGED notPacing
    /\ item \in DOMAIN tu_price_cache
    /\ tu_ret' = [item |-> item, val |-> tu_price_cache[item],
                  outcome |-> "cached"]
    /\ UNCHANGED <<tu_price_cache, tu_elapsed, tu_requests, tu_shortestGap,
                   analyzerVars>>

\* Lines 44-75: what the response does to the cache and to the clock.  The
\* sleep is on the success path only; a 429 is one more HTTPError for
\* raise_for_status, and every failure returns None at once.
TuAfter(item, lat, resp) ==
    IF resp.kind = "ok"
    THEN /\ tu_price_cache' =
               [i \in DOMAIN tu_price_cache \cup {item} |->
                   IF i = item THEN resp.price ELSE tu_price_cache[i]]
         /\ tu_elapsed' = Saturate(lat + TU_SLEEP, TU_SLEEP)
    ELSE /\ tu_price_cache' = tu_price_cache
         /\ tu_elapsed' = Saturate(lat, TU_SLEEP)

\* Lines 36-75: the cache miss.  The request goes out at once, takes lat
\* seconds and comes back with resp.
TuRequest(item, lat, resp) ==
    /\ UNCHANGED notPacing
    /\ item \notin DOMAIN tu_price_cache
    /\ tu_requests < MaxRequests
    /\ tu_requests' = tu_requests + 1
    /\ tu_shortestGap' =
          IF tu_requests = 0 THEN tu_shortestGap
          ELSE Min(IF tu_shortestGap = None THEN TU_SLEEP ELSE tu_shortestGap,
                   tu_elapsed)
    /\ TuAfter(item, lat, resp)
    /\ tu_ret' = [item |-> item, val |-> resp.price,
                  outcome |-> IF resp.kind = "ok" THEN "fetched" ELSE "absent"]
    /\ UNCHANGED analyzerVars

(***************************************************************************)
(* tradeup_scanner.py: evaluate_collection and run_full_scan               *)
(***************************************************************************)
\* Locals at the start of evaluate_collection for collection c.
TuStartCollection(c) ==
    [col |-> c, phase |-> "covert", idx |-> 1, covert_prices |-> <<>>,
     cheapest_gold |-> None, cheapest_gold_price |-> Inf]

\* The script before run_full_scan over the collections t (none: the
\* script is not run).
InitTuScan(t) ==
    /\ tu_pc = IF t = <<>> THEN "idle" ELSE "eval"
    /\ tu_scan = [TuStartCollection(1) EXCEPT !.col = IF t = <<>> THEN 0 ELSE 1]
    /\ tu_results = <<>>
    /\ tu_df = NoFrame

\* COLLECTIONS, cut down to two collections that share candidates: the
\* second lists covert 2 before covert 1.
TuTable ==
    << [covert |-> <<2>>, gold |-> <<3>>],
       [covert |-> <<2, 1>>, gold |-> <<3>>] >>

\* run_full_scan(min_profit=5.0, top_n=15): min_profit in cents.
MIN_PROFIT == 500
TOP_N == 15

\* The candidate whose price evaluate_collection fetches next.
TuCurItem ==
    IF tu_scan.phase = "covert"
    THEN TuTable[tu_scan.col].covert[tu_scan.idx]
    ELSE TuTable[tu_scan.col].gold[tu_scan.idx]

\* Lines 538-540: covert_prices.sort(key=price) is stable, so entry 0 is the
\* first of the entries with the lowest price.
CheapestCovert(cp) ==
    cp[CHOOSE i \in 1..Len(cp) :
          \A j \in 1..Len(cp) :
              cp[i][2] < cp[j][2] \/ (cp[i][2] = cp[j][2] /\ i <= j)]

\* Lines 577-606: the dict that evaluate_collection returns, with rounding
\* error e in net_profit.
TuMakeResult(s, e) ==
    LET c == CheapestCovert(s.covert_prices)[2]
        g == s.cheapest_gold_price
    IN  [collection |-> s.col,
         covert_skin |-> CheapestCovert(s.covert_prices)[1],
         covert_price |-> c,
         cheapest_gold |-> s.cheapest_gold,
         gold_price |-> g,
         price_ratio |-> price_ratio(c, g),
         cost_5x_covert |-> Cost5x(c),
         gold_after_fee |-> GoldAfterFee(g),
         net_profit |-> NetProfit(c, g),
         rounding |-> e,
         profit_margin_pct |-> IF Cost5x(c) > 0
                               THEN Quotient(NetProfit(c, g) * 100, Cost5x(c))
                               ELSE Quotient(0, 1),
         is_profitable |-> Positive(NetProfit(c, g), e)]

\* Lines 622-629: the loop of run_full_scan goes on after collection c.
TuNextCollection(c) ==
    /\ tu_scan' = TuStartCollection(c + 1)
    /\ tu_pc' = IF c < Len(TuTable) THEN "eval" ELSE "report"

\* Lines 526-573: get_market_price returned v for the current candidate.
\* A covert lookup that returns None ends the evaluation with None at once;
\* a gold candidate replaces the cheapest one when its price is truthy and
\* lower.
TuConsume(v) ==
    IF tu_scan.phase = "covert"
    THEN IF v = None
         THEN /\ TuNextCollection(tu_scan.col)
              /\ tu_results' = tu_results
         ELSE /\ tu_scan' =
                    [tu_scan EXCEPT
                        !.covert_prices = Append(@, <<TuCurItem, v>>),
                        !.phase = IF tu_scan.idx < Len(TuTable[tu_scan.col].covert)
                                  THEN "covert" ELSE "gold",
                        !.idx = IF tu_scan.idx < Len(TuTable[tu_scan.col].covert)
                                THEN @ + 1 ELSE 1]
              /\ tu_pc' = tu_pc
              /\ tu_results' = tu_results
    ELSE LET s1 == IF Truthy(v) /\ v < tu_scan.cheapest_gold_price
                   THEN [tu_scan EXCEPT !.cheapest_gold = TuCurItem,
                                        !.cheapest_gold_price = v]
                   ELSE tu_scan
         IN  IF tu_scan.idx < Len(TuTable[tu_scan.col].gold)
             THEN /\ tu_scan' = [s1 EXCEPT !.idx = @ + 1]
                  /\ tu_pc' = tu_pc
                  /\ tu_results' = tu_results
             ELSE /\ TuNextCollection(tu_scan.col)
                  /\ IF s1.cheapest_gold = None
                     THEN tu_results' = tu_results
                     ELSE \E e \in RoundingErrors(
                                       CheapestCovert(s1.covert_prices)[2],
                                       s1.cheapest_gold_price) :
                             tu_results' =
                                 Append(tu_results, TuMakeResult(s1, e))

\* Line 528 or 566: get_market_price answers from the cache.
TuLookupCached ==
    /\ tu_pc = "eval"
    /\ TuCached(TuCurItem)
    /\ TuConsume(tu_price_cache[TuCurItem])
    /\ tu_df' = tu_df

\* Line 528 or 566: get_market_price asks the market.
TuLookupRequest(lat, resp) ==
    /\ tu_pc = "eval"
    /\ TuRequest(TuCurItem, lat, resp)
    /\ TuConsume(resp.price)
    /\ tu_df' = tu_df

\* The response is JSON but not an object: data.get (line 49) raises an
\* AttributeError, which lines 70-75 do not catch.  It leaves
\* evaluate_collection, and run_full_scan (627-629) logs it and continues.
TuRaises(lat) ==
    /\ UNCHANGED notPacing
    /\ tu_pc = "eval"
    /\ TuCurItem \notin DOMAIN tu_price_cache
    /\ tu_requests < MaxRequests
    /\ tu_requests' = tu_requests + 1
    /\ tu_shortestGap' =
          IF tu_requests = 0 THEN tu_shortestGap
          ELSE Min(IF tu_shortestGap = None THEN TU_SLEEP ELSE tu_shortestGap,
                   tu_elapsed)
    /\ tu_elapsed' = Saturate(lat, TU_SLEEP)
    /\ tu_ret' = [item |-> TuCurItem, val |-> None, outcome |-> "raised"]
    /\ TuNextCollection(tu_scan.col)
    /\ UNCHANGED <<tu_price_cache, tu_results, tu_df, analyzerVars>>

\* Ctrl-C during a lookup.  KeyboardInterrupt is not an Exception, so line
\* 627 does not catch it, and neither does the script (679-696): the
\* process ends with the traceback, and results, a local of run_full_scan,
\* is gone with it.
TuInterrupt ==
    /\ UNCHANGED notPacing
    /\ tu_pc = "eval"
    /\ tu_pc' = "crashed"
    /\ tu_results' = <<>>
    /\ tu_ret' = [item |-> TuCurItem, val |-> None, outcome |-> "interrupted"]
    /\ UNCHANGED <<tu_price_cache, tu_elapsed, tu_requests, tu_shortestGap,
                   tu_scan, tu_df, analyzerVars>>

\* The first n rows.
HeadRows(rows, n) == SubSeq(rows, 1, Min(n, Len(rows)))

\* Lines 631-649: an empty frame without results; else the rows with
\* net_profit >= min_profit, sorted by net_profit, the first top_n of them.
TuReport ==
    /\ UNCHANGED notPacing
    /\ tu_pc = "report"
    /\ \E rows \in SortedDescending(
                     SelectSeq(tu_results,
                         LAMBDA r : r.net_profit >= MIN_PROFIT * HUNDREDTHS)) :
          tu_df' = [returned |-> TRUE, rows |-> HeadRows(rows, TOP_N)]
    /\ tu_pc' = "done"
    /\ UNCHANGED <<tradeupVars, analyzerVars, tu_scan, tu_results>>

(***************************************************************************)
(* collection_analyzer.py: rate_limit and get_price                        *)
(***************************************************************************)
InitAnalyzer ==
    /\ an_elapsed = REQUEST_DELAY
    /\ an_last_request = 0
    /\ an_shortestGap = None
    /\ an_ret = None

\* Lines 34-38: the sleep of rate_limit, e seconds after the last request.
RateLimitWait(e) == IF e < REQUEST_DELAY THEN REQUEST_DELAY - e ELSE 0

\* Lines 41-72: get_price.  There is no cache: every call paces, stamps
\* self.last_request and sends one request.
AnGetPrice(lat, resp) ==
    /\ UNCHANGED notPacing
    /\ an_last_request < MaxRequests
    /\ an_last_request' = an_last_request + 1
    /\ an_shortestGap' =
          IF an_last_request = 0 THEN an_shortestGap
          ELSE Min(IF an_shortestGap = None THEN REQUEST_DELAY ELSE an_shortestGap,
                   Saturate(an_elapsed + RateLimitWait(an_elapsed), REQUEST_DELAY))
    /\ an_elapsed' = Saturate(IF resp.kind = "throttle" THEN lat + THROTTLE_SLEEP
                              ELSE lat, REQUEST_DELAY)
    /\ an_ret' = resp.price
    /\ UNCHANGED <<tradeupVars, tuScanVars>>


(***************************************************************************)
(* rate_limit_handler.py: RateLimitHandler                                 *)
(***************************************************************************)
base_wait_time == 60
max_wait_time == 600
min_ip_switch_interval == 300
MIN_REDUCED_WAIT == 30
COUNTDOWN_STEP == 10
SWITCH_PAUSE == 2
RESET_EVERY == 5
MAX_SCRAPE_RETRIES == 3

RECURSIVE Pow2(_)
Pow2(n) == IF n = 0 THEN 1 ELSE 2 * Pow2(n - 1)

\* Lines 61-71: get_wait_time, for rate_limit_hits = h.
get_wait_time_uncapped(h) ==
    IF h = 0 THEN base_wait_time ELSE base_wait_time * Pow2(h - 1)
get_wait_time(h) ==
    IF h = 0 THEN base_wait_time
    ELSE Min(base_wait_time * Pow2(h - 1), max_wait_time)

\* Lines 73-86: should_switch_ip.
should_switch_ip(h, switches, since) ==
    \/ h > 0
    \/ /\ switches > 0
       /\ since # None
       /\ since > min_ip_switch_interval

\* Line 177: the wait after a successful switch.
ReducedWait_Quarter(w) == Max(MIN_REDUCED_WAIT, w \div 4)
ReducedWait(w) == Max(MIN_REDUCED_WAIT, w \div 2)

\* Lines 184-187: the countdown, for remaining in range(wait_time, 0, -10):
\* sleep(min(10, remaining)); the seconds slept in all.
RECURSIVE Countdown(_)
Countdown(remaining) ==
    IF remaining <= 0 THEN 0
    ELSE Min(COUNTDOWN_STEP, remaining) + Countdown(remaining - COUNTDOWN_STEP)

\* The clocks of the handler are kept up to just past the interval they are
\* compared with.
ClockCap == min_ip_switch_interval + 1
Later(clock, d) == IF clock = None THEN None ELSE Saturate(clock + d, ClockCap)

\* What switch_vpn_server can come to (lines 98-151):
\*   ok      the CLI connected: ip_switch_count and last_ip_switch_time are set
\*   failed  the CLI ran and did not connect
\*   nocli   the CLI is missing, or the VPN type is unknown
SwitchOutcomes == {"ok", "failed", "nocli"}

InitScraper(vpns) ==
    /\ vpn \in vpns
    /\ rate_limit_hits = 0
    /\ ip_switch_count = 0
    /\ since_ip_switch = None
    /\ successful_scrapes = 0
    /\ retry_count = 0
    /\ since_switch_call = None
    /\ shortestSwitchGap = None
    /\ lastWait = [computed |-> 0, waited |-> 0, switch |-> "never"]
    /\ run = 0
    /\ resetRun = None

\* How long after the handler last returned it is called again: at once (a
\* retry whose page.goto fails straight away) or after a long scrape.
Pauses == {0, ClockCap}

\* Lines 153-196: handle_rate_limit(vpn), d seconds after it last returned;
\* outcome is what switch_vpn_server comes to when it is called.
handle_rate_limit(d, outcome) ==
    LET h == rate_limit_hits + 1
        wait_time == get_wait_time(h)
        switching == vpn # "none" /\ should_switch_ip(h, ip_switch_count,
                                                      Later(since_ip_switch, d))
        pause == IF outcome \in {"ok", "failed"} THEN SWITCH_PAUSE ELSE 0
        final == IF outcome = "ok" THEN ReducedWait(wait_time) ELSE wait_time
        waited == Countdown(final)
    IN  /\ (outcome = "none") = ~switching
        /\ outcome = "ok" => ip_switch_count < MaxSwitches
        /\ rate_limit_hits' = h
        /\ ip_switch_count' = IF outcome = "ok" THEN ip_switch_count + 1
                              ELSE ip_switch_count
        /\ since_ip_switch' =
              IF outcome = "ok" THEN Saturate(waited, ClockCap)
              ELSE Later(since_ip_switch, d + pause + waited)
        /\ since_switch_call' =
              IF switching THEN Saturate(pause + waited, ClockCap)
              ELSE Later(since_switch_call, d + waited)
        /\ shortestSwitchGap' =
              IF switching /\ since_switch_call # None
              THEN Min(IF shortestSwitchGap = None THEN ClockCap
                       ELSE shortestSwitchGap,
                       Later(since_switch_call, d))
              ELSE shortestSwitchGap
        /\ lastWait' = [computed |-> wait_time, waited |-> waited,
                        switch |-> outcome]

\* Lines 198-202: reset_rate_limit_counter.
reset_rate_limit_counter(h) == 0

(***************************************************************************)
(* intelligent_knife_scraper.py: scrape_search                             *)
(***************************************************************************)
\* Line 189: if self.successful_scrapes % 5 == 0.
ResetDue(n) == n % RESET_EVERY = 0

\* Lines 93-95: the retries are used up; the chain of calls returns [].
GiveUp ==
    /\ UNCHANGED notScraper
    /\ retry_count > MAX_SCRAPE_RETRIES
    /\ retry_count' = 0
    /\ UNCHANGED <<vpn, rate_limit_hits, ip_switch_count, since_ip_switch,
                   successful_scrapes, since_switch_call, shortestSwitchGap,
                   lastWait, run, resetRun>>

\* Lines 97-192: the page has listing rows, they are extracted and parsed.
ScrapeOk ==
    /\ UNCHANGED notScraper
    /\ retry_count <= MAX_SCRAPE_RETRIES
    /\ successful_scrapes < MaxScrapes
    /\ LET n == successful_scrapes + 1
           resets == ResetDue(n) /\ rate_limit_hits > 0
       IN  /\ successful_scrapes' = n
           /\ run' = run + 1
           /\ rate_limit_hits' = IF resets
                                 THEN reset_rate_limit_counter(rate_limit_hits)
                                 ELSE rate_limit_hits
           /\ resetRun' = IF resets THEN run + 1 ELSE resetRun
    /\ retry_count' = 0
    /\ UNCHANGED <<vpn, ip_switch_count, since_ip_switch, since_switch_call,
                   shortestSwitchGap, lastWait>>

\* Lines 108-120, 125-127 and 201-204: no rows and no sign of a rate limit,
\* nothing extracted, or an exception that is not a rate limit.
ScrapeEmpty ==
    /\ UNCHANGED notScraper
    /\ retry_count <= MAX_SCRAPE_RETRIES
    /\ retry_count' = 0
    /\ UNCHANGED <<vpn, rate_limit_hits, ip_switch_count, since_ip_switch,
                   successful_scrapes, since_switch_call, shortestSwitchGap,
                   lastWait, run, resetRun>>

\* Lines 111-117 and 194-200 with 206-223: a rate limit is detected, in the
\* page or in an exception; handle_rate_limit_and_retry handles it and calls
\* scrape_search again.
Throttled(d, outcome) ==
    /\ UNCHANGED notScraper
    /\ retry_count <= MAX_SCRAPE_RETRIES
    /\ rate_limit_hits < MaxHits
    /\ handle_rate_limit(d, outcome)
    /\ retry_count' = retry_count + 1
    /\ run' = 0
    /\ UNCHANGED <<vpn, successful_scrapes, resetRun>>

(***************************************************************************)
(* manual_analyzer.py: analyze_tradeup and batch_analyze                   *)
(***************************************************************************)
MaxOpportunities == 2

\* Lines 13-41: analyze_tradeup(covert_price, gold_price), with rounding
\* error e in net_profit.
analyze_tradeup(c, g, e) ==
    [covert_price |-> c,
     gold_price |-> g,
     price_ratio |-> price_ratio(c, g),
     cost_5x_covert |-> Cost5x(c),
     gold_after_fee |-> GoldAfterFee(g),
     net_profit |-> NetProfit(c, g),
     rounding |-> e,
     profit_margin_pct |-> IF Cost5x(c) > 0
                           THEN Quotient(NetProfit(c, g) * HUNDREDTHS, Cost5x(c))
                           ELSE Quotient(0, 1),
     is_profitable |-> Positive(NetProfit(c, g), e)]

InitManual(lists) ==
    /\ ma_opportunities \in lists
    /\ ma_results = <<>>
    /\ ma_df = NoFrame

\* Lines 55-61: one iteration of the loop of batch_analyze.
AnalyzeNext ==
    /\ UNCHANGED notManual
    /\ ~ma_df.returned
    /\ Len(ma_results) < Len(ma_opportunities)
    /\ LET opp == ma_opportunities[Len(ma_results) + 1]
       IN  \E e \in RoundingErrors(opp.covert_price, opp.gold_price) :
              ma_results' = Append(ma_results,
                  analyze_tradeup(opp.covert_price, opp.gold_price, e))
    /\ UNCHANGED <<ma_opportunities, ma_df>>

\* Lines 63-66: the frame, sorted by net_profit, is returned.
BatchSort ==
    /\ UNCHANGED notManual
    /\ ~ma_df.returned
    /\ Len(ma_results) = Len(ma_opportunities)
    /\ \E rows \in SortedDescending(ma_results) :
          ma_df' = [returned |-> TRUE, rows |-> rows]
    /\ UNCHANGED <<ma_opportunities, ma_results>>

(***************************************************************************)
(* comprehensive_knife_list.py: the checklist                              *)
(***************************************************************************)
\* Names are sequences of words: a knife type is <<"Bowie", "Knife">>, a
\* finish <<"Fade">>, and a market name the words of "★ StatTrak™ Bowie
\* Knife | Fade (Factory New)", the wear in its brackets being one word.

\* Lines 211-247: a checklist entry as generate_comprehensive_knife_list
\* makes it and load_checklist reads it.
Entry(knife_type, finish, wear, is_stattrak) ==
    [knife_type |-> knife_type, finish |-> finish, wear |-> wear,
     is_stattrak |-> is_stattrak, found |-> 0, quantity |-> None,
     price |-> None, last_updated |-> None]

\* The combination that an entry or a parsed listing stands for.
KeyOf(e) == <<e.knife_type, e.finish, e.wear, e.is_stattrak>>

\* Lines 310-312: get_unfound_knives.
get_unfound_knives(checklist) == SelectSeq(checklist, LAMBDA k : k.found = 0)

\* The time of a call, as datetime.now().isoformat() gives it.
Now == 1

\* Lines 315-335: mark_knife_found; the checklist is updated in place and
\* the return value is ret.
mark_knife_found_Resetting(checklist, knife_type, finish, wear, is_stattrak, quantity, price) ==
    [ret |-> TRUE,
     checklist |->
        [i \in DOMAIN checklist |->
            IF KeyOf(checklist[i]) = <<knife_type, finish, wear, is_stattrak>>
            THEN [checklist[i] EXCEPT !.found = 1, !.quantity = quantity,
                                      !.price = price, !.last_updated = Now]
            ELSE [checklist[i] EXCEPT !.found = 0]]]
mark_knife_found(checklist, knife_type, finish, wear, is_stattrak, quantity, price) ==
    LET matching == {i \in DOMAIN checklist :
                        /\ checklist[i].knife_type = knife_type
                        /\ checklist[i].finish = finish
                        /\ checklist[i].wear = wear
                        /\ checklist[i].is_stattrak = is_stattrak}
    IN  IF matching = {}
        THEN [ret |-> FALSE, checklist |-> checklist]
        ELSE LET first == CHOOSE i \in matching : \A j \in matching : i <= j
             IN  [ret |-> TRUE,
                  checklist |->
                     [checklist EXCEPT ![first] =
                         [@ EXCEPT !.found = 1, !.quantity = quantity,
                                   !.price = price, !.last_updated = Now]]]

NoMark == [called |-> FALSE, key |-> <<>>, quantity |-> None, price |-> None,
           ret |-> FALSE, before |-> <<>>]
\* One call of scrape_search by main with the calls made under it: page
\* loads and calls of handle_rate_limit so far; for every call that is
\* waiting in handle_rate_limit_and_retry, whether it entered it from line
\* 115 ("page", inside the try of line 99) or from line 198 ("exception",
\* inside the handler of line 194); whether the call at hand caught an
\* exception of its first handle_rate_limit_and_retry and is at line 198;
\* and whether init_browser failed last time, which leaves self.page closed.
NoChain == [loads |-> 0, handles |-> 0, stack |-> <<>>, pending |-> FALSE,
            down |-> FALSE]
NoSearch == [query |-> <<>>, returned |-> <<>>, recorded |-> <<>>,
             loaded |-> FALSE, gaveup |-> FALSE, retried |-> FALSE]

\* Lines 50-55 and main (406-419): the scraper is constructed with the
\* checklist of the file and nothing collected; start is where the script
\* is ("idle": it is not run).
InitKnives(checklists, start) ==
    /\ kn_pc = start
    /\ kn_checklist \in checklists
    /\ kn_collected = {}
    /\ kn_queries = <<>>
    /\ kn_qi = 1
    /\ kn_call = NoChain
    /\ kn_last = NoSearch
    /\ kn_returned = [keys |-> {}, twice |-> FALSE]
    /\ kn_prev = [batches |-> 0, marked |-> FALSE]
    /\ kn_mark = NoMark

(***************************************************************************)
(* intelligent_knife_scraper.py: parse_listing, get_next_search_queries,   *)
(* scrape_search with its retries, main                                    *)
(***************************************************************************)
\* The star that precedes the name of every knife on the market, and the
\* StatTrak mark with its trademark sign.
Star == "(star)"
StatTrak == "StatTrak(tm)"
Pipe == "|"

\* Line 430: batch_size = 10 (no search limit is given on the command line).
BATCH_SIZE == 10

\* Lines 290-296: wear_map, in its order.
wear_map ==
    << [full |-> "(Factory New)", abbr |-> "FN"],
       [full |-> "(Minimal Wear)", abbr |-> "MW"],
       [full |-> "(Field-Tested)", abbr |-> "FT"],
       [full |-> "(Well-Worn)", abbr |-> "WW"],
       [full |-> "(Battle-Scarred)", abbr |-> "BS"] >>

\* str.lower, on the words of the names.
Lower(w) ==
    CASE w = "Knife" -> "knife"
      [] w = "Bayonet" -> "bayonet"
      [] w = "Bowie" -> "bowie"
      [] w = "Fade" -> "fade"
      [] w = "Night" -> "night"
      [] w = "Slaughter" -> "slaughter"
      [] w = "Doppler" -> "doppler"
      [] w = "Stained" -> "stained"
      [] w = "Urban" -> "urban"
      [] w = "Masked" -> "masked"
      [] OTHER -> w

Has(words, w) == \E i \in 1..Len(words) : words[i] = w

\* The market's name of the item of a checklist entry.
MarketName(e) ==
    <<Star>> \o (IF e.is_stattrak = 1 THEN <<StatTrak>> ELSE <<>>)
        \o e.knife_type \o <<Pipe>> \o e.finish
        \o <<(CHOOSE m \in {wear_map[k] : k \in 1..Len(wear_map)} :
                  m.abbr = e.wear).full>>

\* A row of the result page as extract_page_data (225-260) returns it; the
\* price text is an amount in cents with or without the "$" before it.
Listing(name, dollar, cents, quantity) ==
    [name |-> name, price_text |-> [dollar |-> dollar, cents |-> cents],
     quantity |-> quantity]

NoParse == [ok |-> FALSE]

\* Test of line 272: 'knife' in name.lower().
NamesAKnife_Always(name) == TRUE
NamesAKnife(name) == \E i \in 1..Len(name) : Lower(name[i]) = "knife"

\* Lines 262-342: parse_listing.
parse_listing(listing) ==
    LET name == listing.name
        name_clean == SelectSeq(name, LAMBDA w : w \notin {Star, StatTrak})
        bars == {i \in 1..Len(name_clean) : name_clean[i] = Pipe}
        bar == CHOOSE i \in bars : \A j \in bars : i <= j
        after == {i \in bars : i > bar}
        stop == IF after = {} THEN Len(name_clean) + 1
                ELSE CHOOSE i \in after : \A j \in after : i <= j
        finish_and_wear == SubSeq(name_clean, bar + 1, stop - 1)
        wears == {k \in 1..Len(wear_map) : Has(finish_and_wear, wear_map[k].full)}
        wear == wear_map[CHOOSE k \in wears : \A j \in wears : k <= j]
    IN  IF ~Has(name, Star) THEN NoParse
        ELSE IF ~NamesAKnife(name) THEN NoParse
        ELSE IF bars = {} THEN NoParse
        ELSE IF wears = {} THEN NoParse
        ELSE IF ~listing.price_text.dollar THEN NoParse
        ELSE [ok |-> TRUE,
              knife_type |-> SubSeq(name_clean, 1, bar - 1),
              finish |-> SelectSeq(finish_and_wear, LAMBDA w : w # wear.full),
              wear |-> wear.abbr,
              is_stattrak |-> IF Has(name, StatTrak) THEN 1 ELSE 0,
              quantity |-> listing.quantity,
              price |-> listing.price_text.cents]

\* Lines 355-361: the keys of search_groups, in the order in which the dict
\* received them.
RECURSIVE SearchGroups(_)
SearchGroups(unfound) ==
    IF unfound = <<>> THEN <<>>
    ELSE LET before == SearchGroups(SubSeq(unfound, 1, Len(unfound) - 1))
             last == unfound[Len(unfound)]
             key == <<last.knife_type, last.finish>>
         IN  IF \E i \in 1..Len(before) : before[i] = key
             THEN before
             ELSE Append(before, key)

\* Lines 344-369: get_next_search_queries.
get_next_search_queries_Last(checklist, batch_size) ==
    LET groups == SearchGroups(get_unfound_knives(checklist))
        n == IF batch_size < Len(groups) THEN batch_size ELSE Len(groups)
    IN  [i \in 1..n |->
            [search_query |-> groups[Len(groups) - n + i][1]
                                \o groups[Len(groups) - n + i][2],
             expected_knife |-> groups[Len(groups) - n + i][1],
             expected_finish |-> groups[Len(groups) - n + i][2]]]
get_next_search_queries(checklist, batch_size) ==
    LET groups == SearchGroups(get_unfound_knives(checklist))
        n == IF batch_size < Len(groups) THEN batch_size ELSE Len(groups)
    IN  [i \in 1..n |->
            [search_query |-> groups[i][1] \o groups[i][2],
             expected_knife |-> groups[i][1],
             expected_finish |-> groups[i][2]]]

\* Lines 72-75: is_duplicate.
is_duplicate_Never(collected, parsed) == FALSE
is_duplicate(collected, parsed) == KeyOf(parsed) \in collected

\* Lines 141-172: the loop over the listings of a page for query q; st holds
\* collected_knives, the checklist and parsed_listings.
RECURSIVE ProcessListings(_, _, _)
ProcessListings(listings, q, st) ==
    IF listings = <<>> THEN st
    ELSE LET parsed == parse_listing(Head(listings))
             rest == Tail(listings)
         IN  IF ~parsed.ok
             THEN ProcessListings(rest, q, st)
             ELSE IF parsed.knife_type # q.expected_knife
             THEN ProcessListings(rest, q, st)
             ELSE IF parsed.finish # q.expected_finish
             THEN ProcessListings(rest, q, st)
             ELSE IF is_duplicate(st.collected, parsed)
             THEN ProcessListings(rest, q, st)
             ELSE ProcessListings(rest, q,
                     [collected |-> st.collected \cup {KeyOf(parsed)},
                      checklist |->
                         mark_knife_found(st.checklist, parsed.knife_type,
                             parsed.finish, parsed.wear, parsed.is_stattrak,
                             parsed.quantity, parsed.price).checklist,
                      parsed_listings |-> Append(st.parsed_listings, parsed)])

\* The query that main is at.
KnQuery == kn_queries[kn_qi]

\* Lines 446-449: scrape_search has returned to main, which goes on with
\* the next query of the batch or, after the last, with the next batch.
KnAdvance ==
    /\ kn_qi' = IF kn_qi < Len(kn_queries) THEN kn_qi + 1 ELSE 1
    /\ kn_pc' = IF kn_qi < Len(kn_queries) THEN "search" ELSE "batch"

\* Lines 421-440 and 457-458: the next batch of queries; none ends the loop.
KnBatch ==
    /\ UNCHANGED <<notKnives, scraperVars>>
    /\ kn_pc = "batch"
    /\ kn_queries' = get_next_search_queries(kn_checklist, BATCH_SIZE)
    /\ kn_pc' = IF kn_queries' = <<>> THEN "done" ELSE "search"
    /\ kn_qi' = 1
    /\ kn_prev' = [batches |-> 1, marked |-> FALSE]
    /\ UNCHANGED <<kn_checklist, kn_collected, kn_call, kn_last, kn_returned,
                   kn_mark>>

\* Lines 115-117, 198-200 and 223: what main receives from a search whose
\* call number retry_count parsed the listings.  The first call returns
\* them (192); a retry returns them to handle_rate_limit_and_retry, which
\* drops them, and the calls above it return [].
ReturnedToMain_Passed(retries, parsed_listings) == parsed_listings
ReturnedToMain(retries, parsed_listings) ==
    IF retries = 0 THEN parsed_listings ELSE <<>>

\* Lines 97-192: the page has rows; they are parsed, filtered and recorded,
\* and the new ones are returned.  A call that is itself a retry returns to
\* handle_rate_limit_and_retry (223), which drops the value, and every call
\* outside it returns [] (117, 200).
KnSearchOk(page) ==
    /\ kn_pc = "search"
    /\ ~kn_call.pending
    /\ ~kn_call.down
    /\ page # <<>>
    /\ ScrapeOk
    /\ LET r == ProcessListings(page, KnQuery,
                    [collected |-> kn_collected, checklist |-> kn_checklist,
                     parsed_listings |-> <<>>])
           keys == {KeyOf(r.parsed_listings[i]) :
                       i \in 1..Len(r.parsed_listings)}
       IN  /\ kn_collected' = r.collected
           /\ kn_checklist' = r.checklist
           /\ kn_returned' =
                 [keys |-> kn_returned.keys \cup keys,
                  twice |-> \/ kn_returned.twice
                            \/ keys \cap kn_returned.keys # {}
                            \/ Cardinality(keys) # Len(r.parsed_listings)]
           /\ kn_last' = [query |-> KnQuery,
                          returned |-> ReturnedToMain(retry_count,
                                                      r.parsed_listings),
                          recorded |-> r.parsed_listings,
                          loaded |-> TRUE,
                          gaveup |-> FALSE,
                          retried |-> retry_count > 0]
    /\ kn_prev' = [kn_prev EXCEPT !.marked = @ \/ kn_checklist' # kn_checklist]
    /\ KnAdvance
    /\ kn_call' = NoChain
    /\ UNCHANGED <<kn_queries, kn_mark>>

\* Lines 108-120, 125-127 and 201-204: the page was loaded and nothing came
\* of it: no rows and no rate limit, nothing extracted, or an error that is
\* no rate limit.
KnSearchEmpty ==
    /\ kn_pc = "search"
    /\ ~kn_call.pending
    /\ ~kn_call.down
    /\ ScrapeEmpty
    /\ kn_last' = [query |-> KnQuery, returned |-> <<>>, recorded |-> <<>>,
                   loaded |-> TRUE,
                   gaveup |-> FALSE, retried |-> retry_count > 0]
    /\ KnAdvance
    /\ kn_call' = NoChain
    /\ UNCHANGED <<kn_checklist, kn_collected, kn_queries, kn_returned,
                   kn_prev, kn_mark>>

\* The waiting call that catches an exception raised under it: the last one
\* that entered handle_rate_limit_and_retry from line 115; 0 when there is
\* none and the exception reaches main.
RECURSIVE Catcher(_)
Catcher(stack) ==
    IF stack = <<>> THEN 0
    ELSE IF stack[Len(stack)] = "page" THEN Len(stack)
    ELSE Catcher(SubSeq(stack, 1, Len(stack) - 1))

\* How a call comes to handle_rate_limit_and_retry: a fresh call loads the
\* page and finds the rate limit in the page (111-115; the page must be
\* open) or in an exception (194-198; a closed page raises one that
\* detect_rate_limit takes for a rate limit); a call that caught an
\* exception at line 194 is at line 198 without another load.
KnEnters(via) ==
    /\ kn_pc = "search"
    /\ via = "page" => ~kn_call.pending /\ ~kn_call.down
    /\ kn_call.pending => via = "exception"

KnLoads == IF kn_call.pending THEN kn_call.loads ELSE kn_call.loads + 1

\* Lines 111-117, 194-200 and 206-223: a rate limit is detected,
\* handle_rate_limit runs, init_browser succeeds and scrape_search is
\* called again.
KnThrottled(d, outcome, via) ==
    /\ KnEnters(via)
    /\ Throttled(d, outcome)
    /\ kn_call' = [loads |-> KnLoads, handles |-> kn_call.handles + 1,
                   stack |-> Append(kn_call.stack, via),
                   pending |-> FALSE, down |-> FALSE]
    /\ UNCHANGED <<kn_pc, kn_checklist, kn_collected, kn_queries, kn_qi,
                   kn_last, kn_returned, kn_prev, kn_mark>>

\* Lines 206-220 with 194-204: a rate limit is detected, handle_rate_limit
\* runs and init_browser raises.  closed says whether str(e) holds "Target
\* page, context or browser has been closed" (rate_limit_handler.py 38).
\* The exception leaves every call that entered from line 198 and is caught
\* at line 194 of the last call that entered from line 115: that call goes
\* to line 198 when detect_rate_limit(error=e) holds and returns [] when it
\* does not; with no such call the exception ends main (469-486).
KnRestartFails(d, outcome, via, closed) ==
    /\ KnEnters(via)
    /\ UNCHANGED notScraper
    /\ retry_count <= MAX_SCRAPE_RETRIES
    /\ rate_limit_hits < MaxHits
    /\ handle_rate_limit(d, outcome)
    /\ run' = 0
    /\ UNCHANGED <<vpn, successful_scrapes, resetRun>>
    /\ LET j == Catcher(Append(kn_call.stack, via))
       IN  IF j > 0 /\ closed
           THEN /\ retry_count' = j - 1
                /\ kn_call' = [loads |-> KnLoads,
                               handles |-> kn_call.handles + 1,
                               stack |-> SubSeq(kn_call.stack, 1, j - 1),
                               pending |-> TRUE, down |-> TRUE]
                /\ UNCHANGED <<kn_pc, kn_qi, kn_last>>
           ELSE /\ retry_count' = 0
                /\ kn_last' = [query |-> KnQuery, returned |-> <<>>,
                               recorded |-> <<>>,
                               loaded |-> ~kn_call.pending,
                               gaveup |-> FALSE, retried |-> TRUE]
                /\ kn_call' = [NoChain EXCEPT !.down = TRUE]
                /\ IF j > 0
                   THEN KnAdvance
                   ELSE kn_pc' = "crashed" /\ kn_qi' = kn_qi
    /\ UNCHANGED <<kn_checklist, kn_collected, kn_queries, kn_returned,
                   kn_prev, kn_mark>>

\* Lines 93-95: the call that finds the retries used up returns [] without
\* loading the page, and so does every call outside it.
KnGiveUp ==
    /\ kn_pc = "search"
    /\ GiveUp
    /\ kn_last' = [query |-> KnQuery, returned |-> <<>>, recorded |-> <<>>,
                   loaded |-> FALSE,
                   gaveup |-> TRUE, retried |-> TRUE]
    /\ KnAdvance
    /\ kn_call' = NoChain
    /\ UNCHANGED <<kn_checklist, kn_collected, kn_queries, kn_returned,
                   kn_prev, kn_mark>>

\* mark_knife_found is called on its own.
KnMark(knife_type, finish, wear, is_stattrak, quantity, price) ==
    /\ UNCHANGED <<notKnives, scraperVars>>
    /\ kn_pc = "calls"
    /\ LET r == mark_knife_found(kn_checklist, knife_type, finish, wear,
                                 is_stattrak, quantity, price)
       IN  /\ kn_checklist' = r.checklist
           /\ kn_mark' = [called |-> TRUE,
                          key |-> <<knife_type, finish, wear, is_stattrak>>,
                          quantity |-> quantity, price |-> price,
                          ret |-> r.ret, before |-> kn_checklist]
    /\ UNCHANGED <<kn_pc, kn_collected, kn_queries, kn_qi, kn_call, kn_last,
                   kn_returned, kn_prev>>

(***************************************************************************)
(* market_scraper.py: SteamMarketScraper and test_scraper                  *)
(***************************************************************************)
MK_BASE_DELAY == 12
MK_MAX_RETRIES == 3
MK_SAVE_EVERY == 5

\* test_items, as item names.
MkTestItems == <<1, 2, 3>>

\* Lines 121-129: _get_item_nameid raises NotImplementedError for every item.
get_item_nameid_Known(item) == [raises |-> FALSE, id |-> item]
get_item_nameid(item) == [raises |-> TRUE, id |-> None]

\* What a request of the scraper can come back with.
MkResponses ==
    {[kind |-> k, price |-> None] : k \in {"throttle", "nosuccess", "connerr"}}
        \cup {[kind |-> "ok", price |-> p] : p \in Prices}

NoCall == [sleeps |-> <<>>, fallbacks |-> 0, histogram |-> 0]

\* Lines 25-38 and test_scraper (178): the scraper is constructed with the
\* cache of the file; items is what test_scraper goes through (none: the
\* script is not run).
InitMarket(items) ==
    /\ mk_pc = IF items = <<>> THEN "idle" ELSE "call"
    /\ mk_idx = 1
    /\ mk_file \in IF items = <<>> THEN {FileMissing}
                    ELSE {FileMissing, FileOf([i \in {2} |-> 1])}
    /\ mk_cache = load_cache(mk_file)
    /\ mk_request_count = 0
    /\ mk_elapsed = MK_BASE_DELAY
    /\ mk_attempt = 0
    /\ mk_call = NoCall
    /\ mk_ret = [item |-> None, val |-> None, outcome |-> "none",
                 sleeps |-> <<>>, fallbacks |-> 0, histogram |-> 0]
    /\ mk_run = [histogram |-> 0, saves |-> 0]

MkItem == MkTestItems[mk_idx]

\* get_lowest_buy_order returns v; test_scraper (190-198) goes on with the
\* next item or, after the last, with save_cache.
MkReturn(v, outcome, call) ==
    /\ mk_ret' = [item |-> MkItem, val |-> v, outcome |-> outcome,
                  sleeps |-> call.sleeps, fallbacks |-> call.fallbacks,
                  histogram |-> call.histogram]
    /\ mk_call' = NoCall
    /\ mk_attempt' = 0
    /\ mk_idx' = mk_idx + 1
    /\ mk_pc' = IF mk_idx < Len(MkTestItems) THEN "call" ELSE "save"

\* Lines 59-69: the cache hit, or the wait that brings the time since the
\* last request up to BASE_DELAY before the loop starts.
MkStart ==
    /\ UNCHANGED notMarket
    /\ mk_pc = "call"
    /\ IF MkItem \in DOMAIN mk_cache
       THEN /\ MkReturn(mk_cache[MkItem], "cached", NoCall)
            /\ UNCHANGED mk_elapsed
       ELSE /\ mk_elapsed' = MK_BASE_DELAY
            /\ mk_attempt' = 0
            /\ mk_call' = NoCall
            /\ mk_pc' = "attempt"
            /\ UNCHANGED <<mk_idx, mk_ret>>
    /\ UNCHANGED <<mk_cache, mk_file, mk_request_count, mk_run>>

\* Lines 110-117: an exception in the body of the loop.  While attempts are
\* left the call sleeps BASE_DELAY * 2 ** attempt and goes round; on the last
\* attempt it goes to the fallback.
MkExcept(call) ==
    IF mk_attempt < MK_MAX_RETRIES - 1
    THEN /\ mk_call' = [call EXCEPT
                           !.sleeps = Append(@, MK_BASE_DELAY * Pow2(mk_attempt))]
         /\ mk_attempt' = mk_attempt + 1
         /\ mk_pc' = "attempt"
    ELSE /\ mk_call' = call
         /\ mk_attempt' = mk_attempt
         /\ mk_pc' = "fallback"

\* Lines 71-119: one iteration of the loop.  The params dict is built first
\* (line 79), so an exception of _get_item_nameid precedes the request.
MkAttempt(lat, resp) ==
    /\ UNCHANGED notMarket
    /\ mk_pc = "attempt"
    /\ IF get_item_nameid(MkItem).raises
       THEN /\ MkExcept(mk_call)
            /\ UNCHANGED <<mk_idx, mk_cache, mk_file, mk_request_count,
                           mk_elapsed, mk_ret, mk_run>>
       ELSE LET cnt == mk_request_count + 1
                call == [mk_call EXCEPT !.histogram = @ + 1]
                flush == resp.kind = "ok" /\ cnt % MK_SAVE_EVERY = 0
            IN  /\ mk_request_count' = cnt
                /\ mk_run' = [histogram |-> mk_run.histogram + 1,
                              saves |-> mk_run.saves + IF flush THEN 1 ELSE 0]
                /\ mk_cache' = IF resp.kind = "ok"
                               THEN StorePrice(mk_cache, MkItem, resp.price)
                               ELSE mk_cache
                /\ mk_file' = IF flush THEN FileOf(mk_cache') ELSE mk_file
                /\ mk_elapsed' =
                      IF resp.kind = "throttle"
                      THEN MK_BASE_DELAY
                      ELSE Saturate(lat, MK_BASE_DELAY)
                /\ IF resp.kind = "ok"
                   THEN MkReturn(resp.price, "histogram", call)
                   ELSE IF resp.kind = "throttle"
                   THEN IF mk_attempt < MK_MAX_RETRIES - 1
                        THEN /\ mk_call' =
                                   [call EXCEPT !.sleeps =
                                       Append(@, MK_BASE_DELAY * Pow2(mk_attempt))]
                             /\ mk_attempt' = mk_attempt + 1
                             /\ UNCHANGED <<mk_pc, mk_idx, mk_ret>>
                        ELSE MkReturn(None, "throttled",
                                 [call EXCEPT !.sleeps =
                                     Append(@, MK_BASE_DELAY * Pow2(mk_attempt))])
                   ELSE IF resp.kind = "nosuccess"
                   THEN /\ mk_call' = call
                        /\ mk_pc' = "fallback"
                        /\ UNCHANGED <<mk_attempt, mk_idx, mk_ret>>
                   ELSE /\ MkExcept(call)
                        /\ UNCHANGED <<mk_idx, mk_ret>>

\* Lines 131-173: _get_price_fallback waits until BASE_DELAY has passed
\* since the last request, sends one price-overview request and returns its
\* price, or None for a 429, a response without a price or an exception.
MkFallback(lat, resp) ==
    /\ UNCHANGED notMarket
    /\ mk_pc = "fallback"
    /\ mk_elapsed' = Saturate(lat, MK_BASE_DELAY)
    /\ mk_cache' = IF resp.kind = "ok"
                   THEN StorePrice(mk_cache, MkItem, resp.price)
                   ELSE mk_cache
    /\ MkReturn(resp.price, "fallback",
                [mk_call EXCEPT !.fallbacks = @ + 1])
    /\ UNCHANGED <<mk_file, mk_request_count, mk_run>>

\* Line 198: test_scraper's save_cache.
MkSaveCache ==
    /\ UNCHANGED notMarket
    /\ mk_pc = "save"
    /\ mk_file' = FileOf(mk_cache)
    /\ mk_pc' = "done"
    /\ UNCHANGED <<mk_idx, mk_cache, mk_request_count, mk_elapsed, mk_attempt,
                   mk_call, mk_ret, mk_run>>

(***************************************************************************)
(* Specifications of smart_scanner.py                                      *)
(***************************************************************************)
SmallTable ==
    << [covert |-> <<1, 2>>, gold |-> <<3>>],
       [covert |-> <<2>>, gold |-> <<3>>] >>

\* The shape of the first entry of FOCUSED_COLLECTIONS: four covert names,
\* the vanilla knife and three finishes in two wears.
LongTable ==
    << [covert |-> <<1, 2, 3, 4>>, gold |-> <<5, 6, 7, 8, 9, 10, 11>>],
       [covert |-> <<12>>, gold |-> <<5>>] >>

\* What an earlier run may have left in CACHE_FILE.
InitialFiles == {FileMissing, FileCorrupt, FileOf([i \in {3} |-> 1])}

InitScanner(t, files) ==
    /\ table = t
    /\ cache_file \in files
    /\ price_cache = load_cache(cache_file)
    /\ pc = IF LoadRaises(cache_file) THEN "crashed" ELSE "fetch"
    /\ elapsed = BASE_DELAY
    /\ request_count = 0
    /\ last_request_time = 0
    /\ scan = StartCollection(1)
    /\ attempt = 0
    /\ pending = None
    /\ results = <<>>
    /\ report = [printed |-> FALSE, rows |-> <<>>]
    /\ ret = NoReturn
    /\ issued = 0
    /\ throttles = 0
    /\ shortestGap = None
    /\ since_flush = 0

Init ==
    /\ InitScanner(SmallTable, InitialFiles)
    /\ InitTradeup
    /\ InitAnalyzer
    /\ InitScraper({"none"})
    /\ InitTuScan(<<>>)
    /\ InitManual({<<>>})
    /\ InitMarket(<<>>)
    /\ InitKnives({<<>>}, "idle")

\* A short scan against a network that may fail in every way.
Next ==
    \/ FetchCached
    \/ \E lat \in Latencies, resp \in Responses : Attempt(lat, resp)
    \/ SaveOpenOk
    \/ SaveDumpOk
    \/ Report

Spec == Init /\ [][Next]_vars

InitLong ==
    /\ InitScanner(LongTable, {FileMissing})
    /\ InitTradeup
    /\ InitAnalyzer
    /\ InitScraper({"none"})
    /\ InitTuScan(<<>>)
    /\ InitManual({<<>>})
    /\ InitMarket(<<>>)
    /\ InitKnives({<<>>}, "idle")

\* A scan long enough for the periodic flush, against a disk that may fail
\* and a process that may be stopped.
NextLong ==
    \/ FetchCached
    \/ \E resp \in QuietResponses : Attempt(0, resp)
    \/ SaveOpenOk
    \/ SaveOpenFail
    \/ SaveDumpOk
    \/ SaveDumpFail
    \/ Kill
    \/ Report

SpecLong == InitLong /\ [][NextLong]_vars

\* Three collections that share names, as FOCUSED_COLLECTIONS does.
EvalTable ==
    << [covert |-> <<1, 2>>, gold |-> <<3>>],
       [covert |-> <<2>>, gold |-> <<3, 4>>],
       [covert |-> <<1>>, gold |-> <<4>>] >>

\* Prices in cents that put results on both sides of break-even.
EvalPrices == {0, 100, 800, 1000, 5000}
EvalResponses ==
    {[kind |-> "nosuccess", price |-> None]}
        \cup {[kind |-> "ok", price |-> p] : p \in EvalPrices}

InitEvaluate ==
    /\ InitScanner(EvalTable, {FileMissing})
    /\ InitTradeup
    /\ InitAnalyzer
    /\ InitScraper({"none"})
    /\ InitTuScan(<<>>)
    /\ InitManual({<<>>})
    /\ InitMarket(<<>>)
    /\ InitKnives({<<>>}, "idle")

\* A scan over prices that differ widely, with collections that fail and a
\* user who may interrupt.
NextEvaluate ==
    \/ FetchCached
    \/ \E resp \in EvalResponses : Attempt(0, resp)
    \/ FetchRaises(0)
    \/ Interrupt
    \/ SaveOpenOk
    \/ SaveDumpOk
    \/ Report

SpecEvaluate == InitEvaluate /\ [][NextEvaluate]_vars

(***************************************************************************)
(* Specification of the two fetchers without a retry loop                  *)
(***************************************************************************)
InitPacing ==
    /\ InitScanner(SmallTable, {FileMissing})
    /\ InitTradeup
    /\ InitAnalyzer
    /\ InitScraper({"none"})
    /\ InitTuScan(<<>>)
    /\ InitManual({<<>>})
    /\ InitMarket(<<>>)
    /\ InitKnives({<<>>}, "idle")

\* get_market_price is called here on its own, outside an evaluation.
NextPacing ==
    \/ \E item \in Items : TuCached(item) /\ UNCHANGED tuScanVars
    \/ \E item \in Items, lat \in Latencies, resp \in Responses :
          TuRequest(item, lat, resp) /\ UNCHANGED tuScanVars
    \/ \E lat \in Latencies, resp \in Responses : AnGetPrice(lat, resp)

SpecPacing == InitPacing /\ [][NextPacing]_vars

(***************************************************************************)
(* Specification of the knife scraper and its rate limit handler           *)
(***************************************************************************)
InitScraping ==
    /\ InitScanner(SmallTable, {FileMissing})
    /\ InitTradeup
    /\ InitAnalyzer
    /\ InitScraper({"none", "nordvpn"})
    /\ InitTuScan(<<>>)
    /\ InitManual({<<>>})
    /\ InitMarket(<<>>)
    /\ InitKnives({<<>>}, "idle")

\* scrape_search is called here on its own, whatever the page holds.
NextScraping ==
    \/ GiveUp /\ UNCHANGED knifeVars
    \/ ScrapeOk /\ UNCHANGED knifeVars
    \/ ScrapeEmpty /\ UNCHANGED knifeVars
    \/ \E d \in Pauses, outcome \in SwitchOutcomes \cup {"none"} :
          Throttled(d, outcome) /\ UNCHANGED knifeVars

SpecScraping == InitScraping /\ [][NextScraping]_vars

(***************************************************************************)
(* Specification of manual_analyzer.batch_analyze                          *)
(***************************************************************************)
\* Prices in cents: nothing, the break-even pair 2.61 with 15.00 (whose
\* net_profit the code computes as 1.78e-15) and pairs on either side of
\* break-even.
ManualCovertPrices == {0, 261, 800}
ManualGoldPrices == {0, 1500, 3000, 5000}
ManualOpportunities ==
    [covert_price : ManualCovertPrices, gold_price : ManualGoldPrices]
ManualLists ==
    UNION {[1..n -> ManualOpportunities] : n \in 1..MaxOpportunities}

InitManualSpec ==
    /\ InitScanner(SmallTable, {FileMissing})
    /\ InitTradeup
    /\ InitAnalyzer
    /\ InitScraper({"none"})
    /\ InitTuScan(<<>>)
    /\ InitManual(ManualLists)
    /\ InitMarket(<<>>)
    /\ InitKnives({<<>>}, "idle")

NextManual ==
    \/ AnalyzeNext
    \/ BatchSort

SpecManual == InitManualSpec /\ [][NextManual]_vars

(***************************************************************************)
(* Specification of tradeup_scanner.run_full_scan                          *)
(***************************************************************************)
\* Prices in cents: 0.00, and prices whose profits fall on both sides of
\* min_profit (1.00 with 10.00 earns 3.70, with 50.00 it earns 38.50).
TuEvalPrices == {0, 100, 1000, 5000}
TuEvalResponses ==
    {[kind |-> "nosuccess", price |-> None]}
        \cup {[kind |-> "ok", price |-> p] : p \in TuEvalPrices}

InitTradeupSpec ==
    /\ InitScanner(SmallTable, {FileMissing})
    /\ InitTradeup
    /\ InitAnalyzer
    /\ InitScraper({"none"})
    /\ InitTuScan(TuTable)
    /\ InitManual({<<>>})
    /\ InitMarket(<<>>)
    /\ InitKnives({<<>>}, "idle")

NextTradeup ==
    \/ TuLookupCached
    \/ \E resp \in TuEvalResponses : TuLookupRequest(0, resp)
    \/ TuRaises(0)
    \/ TuInterrupt
    \/ TuReport

SpecTradeup == InitTradeupSpec /\ [][NextTradeup]_vars

(***************************************************************************)
(* Specification of market_scraper.test_scraper                            *)
(***************************************************************************)
InitMarketSpec ==
    /\ InitScanner(SmallTable, {FileMissing})
    /\ InitTradeup
    /\ InitAnalyzer
    /\ InitScraper({"none"})
    /\ InitTuScan(<<>>)
    /\ InitManual({<<>>})
    /\ InitMarket(MkTestItems)
    /\ InitKnives({<<>>}, "idle")

NextMarket ==
    \/ MkStart
    \/ \E lat \in Latencies, resp \in MkResponses : MkAttempt(lat, resp)
    \/ \E lat \in Latencies, resp \in MkResponses : MkFallback(lat, resp)
    \/ MkSaveCache

SpecMarket == InitMarketSpec /\ [][NextMarket]_vars

(***************************************************************************)
(* Specifications of the knife scraper                                     *)
(***************************************************************************)
Bayonet == <<"Bayonet">>
BowieKnife == <<"Bowie", "Knife">>
Fade == <<"Fade">>
Night == <<"Night">>
KnFinishes ==
    <<Fade, Night, <<"Slaughter">>, <<"Doppler">>, <<"Stained">>, <<"Urban", "Masked">> >>

\* A part of the generated checklist, in its order: the types in the order
\* of KNIFE_TYPES (Bayonet first), under a type its finishes, under a finish
\* its wears, and plain before StatTrak.
SmallChecklist ==
    << Entry(Bayonet, Fade, "FN", 0),
       Entry(BowieKnife, Fade, "FN", 0),
       Entry(BowieKnife, Fade, "FN", 1) >>

\* Twelve groups, more than a batch holds.
WideChecklist ==
    [i \in 1..(2 * Len(KnFinishes)) |->
        IF i <= Len(KnFinishes)
        THEN Entry(Bayonet, KnFinishes[i], "FN", 0)
        ELSE Entry(BowieKnife, KnFinishes[i - Len(KnFinishes)], "FN", 0)]

\* The entries of the checklist that a query is made for.
GroupOf(checklist, q) ==
    SelectSeq(checklist, LAMBDA e : /\ e.knife_type = q.expected_knife
                                    /\ e.finish = q.expected_finish)

\* A result page with a row for every checklist entry of the query.
FullPage(checklist, q) ==
    LET g == GroupOf(checklist, q)
    IN  [i \in 1..Len(g) |-> Listing(MarketName(g[i]), TRUE, 12345, 3)]

\* Rows that a search also brings up: another finish, a price without "$",
\* a name without "|", without the star, without a wear, and a wear of the
\* searched knife that the checklist does not hold.
OddRows(q) ==
    << Listing(MarketName(Entry(q.expected_knife, <<"Other">>, "FN", 0)),
               TRUE, 500, 1),
       Listing(MarketName(Entry(q.expected_knife, q.expected_finish, "MW", 0)),
               FALSE, 500, 1),
       Listing(<<Star>> \o q.expected_knife, TRUE, 500, 1),
       Listing(q.expected_knife \o <<Pipe>> \o q.expected_finish
                   \o <<"(Factory New)">>, TRUE, 500, 1),
       Listing(<<Star>> \o q.expected_knife \o <<Pipe>> \o q.expected_finish,
               TRUE, 500, 1),
       Listing(MarketName(Entry(q.expected_knife, q.expected_finish, "BS", 1)),
               TRUE, 500, 1) >>

\* The pages that a search may load.
Pages(checklist, q) ==
    LET full == FullPage(checklist, q)
    IN  {full, <<full[1]>>, full \o OddRows(q) \o full}

InitKnivesSpec ==
    /\ InitScanner(SmallTable, {FileMissing})
    /\ InitTradeup
    /\ InitAnalyzer
    /\ InitScraper({"none"})
    /\ InitTuScan(<<>>)
    /\ InitManual({<<>>})
    /\ InitMarket(<<>>)
    /\ InitKnives({SmallChecklist}, "batch")

\* main (421-467): batch after batch, and in a batch search after search.
\* No VPN is used, so that handle_rate_limit only waits, a search follows
\* the one before it at once, and every init_browser succeeds.
NextKnives ==
    \/ KnBatch
    \/ /\ kn_pc = "search"
       /\ \E page \in Pages(kn_checklist, KnQuery) : KnSearchOk(page)
    \/ KnSearchEmpty
    \/ \E via \in {"page", "exception"} : KnThrottled(0, "none", via)
    \/ KnGiveUp

SpecKnives == InitKnivesSpec /\ [][NextKnives]_vars

\* The same loop with an init_browser that may raise after a rate limit.
NextRetries ==
    \/ NextKnives
    \/ \E via \in {"page", "exception"}, closed \in BOOLEAN :
          KnRestartFails(0, "none", via, closed)

SpecRetries == InitKnivesSpec /\ [][NextRetries]_vars

InitBatches ==
    /\ InitScanner(SmallTable, {FileMissing})
    /\ InitTradeup
    /\ InitAnalyzer
    /\ InitScraper({"none"})
    /\ InitTuScan(<<>>)
    /\ InitManual({<<>>})
    /\ InitMarket(<<>>)
    /\ InitKnives({WideChecklist}, "batch")

\* The same loop over a checklist of more groups than a batch holds, with
\* searches that are not throttled.
NextBatches ==
    \/ KnBatch
    \/ /\ kn_pc = "search"
       /\ KnSearchOk(FullPage(kn_checklist, KnQuery))
    \/ KnSearchEmpty

SpecBatches == InitBatches /\ [][NextBatches]_vars

InitChecklist ==
    /\ InitScanner(SmallTable, {FileMissing})
    /\ InitTradeup
    /\ InitAnalyzer
    /\ InitScraper({"none"})
    /\ InitTuScan(<<>>)
    /\ InitManual({<<>>})
    /\ InitMarket(<<>>)
    /\ InitKnives({SmallChecklist}, "calls")

\* mark_knife_found is called with any arguments, in any order.
NextChecklist ==
    \E knife_type \in {Bayonet, BowieKnife}, finish \in {Fade, Night},
       wear \in {"FN", "FT"}, is_stattrak \in {0, 1}, quantity \in {1, 2} :
        KnMark(knife_type, finish, wear, is_stattrak, quantity, 12345)

SpecChecklist == InitChecklist /\ [][NextChecklist]_vars

(***************************************************************************)
(* Properties of smart_scanner.py under a failing network (Spec)           *)
(***************************************************************************)
\* The step in which get_price_with_retry returns from a call whose every
\* response was a 429.
AllThrottledReturn ==
    /\ last_request_time' # last_request_time
    /\ issued' = 0
    /\ ret'.throttles = ret'.issued

\* C1: a fetch of an uncached item that is answered 429 every time sends
\* exactly MAX_RETRIES requests and then returns None: it does not raise,
\* does not go round again, and leaves the cache and the cache file as they
\* were.
C1_RetryBound ==
    [][AllThrottledReturn =>
          /\ ret'.issued = MAX_RETRIES
          /\ ret'.item = CurItem
          /\ ret'.val = None
          /\ ret'.outcome = "absent"
          /\ attempt' = 0
          /\ price_cache' = price_cache
          /\ cache_file' = cache_file]_vars

C1_Witness ==
    /\ ret.outcome = "absent"
    /\ ret.issued = MAX_RETRIES
    /\ ret.throttles = MAX_RETRIES

\* C3: a fetch of an item that is in price_cache returns the stored value
\* and sends nothing: request_count, last_request_time and the clock are as
\* they were, and so is the cache.
C3_CacheRoundTrip ==
    [][(pc = "fetch" /\ CurItem \in DOMAIN price_cache) =>
          /\ ret'.item = CurItem
          /\ ret'.val = price_cache[CurItem]
          /\ ret'.outcome = "cached"
          /\ request_count' = request_count
          /\ last_request_time' = last_request_time
          /\ elapsed' = elapsed
          /\ issued' = issued
          /\ price_cache' = price_cache]_vars

\* Item 2 is not in the file of an earlier run: it was fetched and stored
\* for the first collection and is looked up again for the second.
C3_Witness ==
    /\ ret.outcome = "cached"
    /\ ret.item = 2
    /\ ret.val = MaxPrice
    /\ request_count > 0

\* C11: price_cache changes only in the step in which a request comes back
\* with a price that parses: that step adds the price under the item and
\* keeps every other entry; no entry is ever removed, and a fetch that is
\* served from the cache or returns None leaves the mapping as it was.
C11_CacheFrame ==
    [][/\ \A i \in DOMAIN price_cache :
             /\ i \in DOMAIN price_cache'
             /\ price_cache'[i] = price_cache[i]
       /\ price_cache' # price_cache =>
             /\ pc = "fetch"
             /\ \E lat \in Latencies, p \in Prices :
                   Attempt(lat, [kind |-> "ok", price |-> p])
             /\ DOMAIN price_cache' = DOMAIN price_cache \cup {CurItem}
             /\ price_cache'[CurItem] \in Prices
       /\ (scan' # scan /\ ret'.outcome \in {"cached", "absent"}) =>
             price_cache' = price_cache]_vars

\* A price was fetched and stored beside an entry that was already there,
\* and a later fetch returned None.
C11_Witness ==
    /\ Cardinality(DOMAIN price_cache) >= 2
    /\ request_count > 0
    /\ ret.outcome = "absent"

\* The responses whose payload is malformed.
Malformed == {"nosuccess", "noprice", "badprice"}

\* C12: a response with success = false, without lowest_price, or with a
\* price text that does not parse ends the fetch with None after that one
\* request: no sleep and no further attempt, nothing raised, nothing cached.
C12_MalformedIsAbsent ==
    [][\A lat \in Latencies, k \in Malformed :
          Attempt(lat, [kind |-> k, price |-> None]) =>
              /\ ret'.outcome = "absent"
              /\ ret'.val = None
              /\ ret'.item = CurItem
              /\ ret'.issued = issued + 1
              /\ last_request_time' = last_request_time + 1
              /\ elapsed' = Saturate(lat, BASE_DELAY)
              /\ attempt' = 0
              /\ scan' # scan
              /\ price_cache' = price_cache
              /\ cache_file' = cache_file]_vars

\* A fetch ended after one request that came back malformed (a connection
\* or HTTP error takes MAX_RETRIES requests to end a fetch with None).
C12_Witness ==
    /\ ret.outcome = "absent"
    /\ ret.issued = 1
    /\ ret.throttles = 0

\* smart_scanner.py alone: two consecutive requests are at least BASE_DELAY
\* apart, whatever the first one came to.
ScannerPaced == shortestGap = None \/ shortestGap >= BASE_DELAY

(***************************************************************************)
(* Properties of smart_scanner.py's evaluation and report (SpecEvaluate)   *)
(***************************************************************************)
\* The names of a candidate list that have a price in the cache.  A lookup
\* that yields a price leaves the name in the cache, one that returns None
\* does not, and no list of the tables names an item twice: when a list has
\* just been gone through, these are the candidates that yielded a price.
Priced(list, cache) == {i \in 1..Len(list) : list[i] \in DOMAIN cache}

\* The step in which the lookup of the last candidate of a list returns.
EndsList ==
    /\ pc = "fetch"
    /\ scan' # scan
    /\ ret'.outcome \in {"cached", "fetched", "absent"}
    /\ scan.idx = Len(IF scan.phase = "covert" THEN table[scan.col].covert
                      ELSE table[scan.col].gold)

\* C14: when every lookup of the covert list, or every lookup of the gold
\* list, has returned None, analyze_collection returns None without an
\* error: main goes on with the next collection, no row is added to results,
\* and the report holds rows of results only.
C14_AbsentCollectionUnreported ==
    [][/\ (EndsList /\ scan.phase = "covert"
             /\ Priced(table[scan.col].covert, price_cache') = {}) =>
             /\ results' = results
             /\ scan' = StartCollection(scan.col + 1)
             /\ pc' = PcAfter(scan.col)
       /\ (EndsList /\ scan.phase = "gold"
             /\ Priced(table[scan.col].gold, price_cache') = {}) =>
             /\ results' = results
             /\ scan' = StartCollection(scan.col + 1)
             /\ pc' = PcAfter(scan.col)
       /\ \A k \in 1..Len(report'.rows) :
             \E j \in 1..Len(results') : report'.rows[k] = results'[j]]_vars

\* The scan is over, the first two collections are in the report, and the
\* third is not: the lookup of its only covert name returned None.
C14_Witness ==
    /\ report.printed
    /\ Len(report.rows) = 2
    /\ Priced(table[3].covert, price_cache) = {}

\* The row that the step adds to results, when it adds one.
NewRow == results'[Len(results')]

\* The price of row r is the lowest of the prices that the candidates of
\* list yielded, and its name is a candidate with that price.
IsCheapest(name, price, list, cache) ==
    /\ \E i \in Priced(list, cache) : list[i] = name /\ cache[name] = price
    /\ \A i \in Priced(list, cache) : price <= cache[list[i]]

\* C15: the covert skin of a result is the candidate with the lowest price
\* of the covert list and its gold item the candidate with the lowest price
\* of the gold list, each whatever the other list holds and whatever the
\* order of the candidates.
C15_MinByPrice ==
    [][results' # results =>
          /\ IsCheapest(NewRow.covert_skin, NewRow.covert_price,
                        table[NewRow.collection].covert, price_cache')
          /\ IsCheapest(NewRow.gold_item, NewRow.gold_price,
                        table[NewRow.collection].gold, price_cache')]_vars

\* The same over the candidates whose price is above 0.
AbovePriced(list, cache) == {i \in Priced(list, cache) : cache[list[i]] > 0}
IsCheapestAbove0(name, price, list, cache) ==
    /\ \E i \in AbovePriced(list, cache) : list[i] = name /\ cache[name] = price
    /\ \A i \in AbovePriced(list, cache) : price <= cache[list[i]]
MinByPriceAbove0 ==
    [][results' # results =>
          /\ IsCheapestAbove0(NewRow.covert_skin, NewRow.covert_price,
                              table[NewRow.collection].covert, price_cache')
          /\ IsCheapestAbove0(NewRow.gold_item, NewRow.gold_price,
                              table[NewRow.collection].gold, price_cache')]_vars

\* The scenario A = 10.00, B = 8.00, X = 50.00 comes out as B @ 8.00 and
\* X @ 50.00 with cost_5x 40.00, 43.50 after the fee and a profit of 3.50.
ScenarioNeverSeen ==
    ~ \E k \in 1..Len(results) :
          /\ results[k].collection = 1
          /\ price_cache[1] = 1000
          /\ results[k].covert_skin = 2
          /\ results[k].covert_price = 800
          /\ results[k].gold_price = 5000
          /\ results[k].cost_5x = 400000
          /\ results[k].gold_after_fee = 435000
          /\ results[k].net_profit = 35000
          /\ results[k].is_profitable

\* C18: an exception that leaves analyze_collection is caught by main: the
\* results collected so far stay, the next collection is started (or, after
\* the last one, the final save_cache and the report), and the report holds
\* every result.
C18_CollectionIsolation ==
    [][/\ FetchRaises(0) =>
             /\ results' = results
             /\ scan' = StartCollection(scan.col + 1)
             /\ pc' = IF scan.col < Len(table) THEN "fetch" ELSE "save_open"
       /\ (pc = "report" /\ pc' = "done") =>
             /\ report'.printed
             /\ Len(report'.rows) = Len(results)
             /\ \A j \in 1..Len(results) :
                   \E k \in 1..Len(report'.rows) : report'.rows[k] = results[j]
      ]_vars

\* The last collection raised, and the report holds the results of the two
\* collections before it.
C18_Witness ==
    /\ pc = "done"
    /\ ret.outcome = "raised"
    /\ Len(report.rows) = 2

\* smart_scanner.py: Ctrl-C during a collection keeps the results, starts
\* no further collection and goes to the final save_cache.
InterruptKeepsResults ==
    [][Interrupt =>
          /\ results' = results
          /\ price_cache' = price_cache
          /\ scan'.col > Len(table)
          /\ pc' = "save_open"]_vars

\* Lines 363-367: profitable = df[df['is_profitable']].
Profitable(rows) == SelectSeq(rows, LAMBDA r : r.is_profitable)

\* C20: the report lists the results in non-increasing order of net_profit,
\* whatever the order of the collections, and the row printed as best has
\* the highest net_profit of the profitable rows.
C20_ReportSorted ==
    report.printed =>
        /\ Len(report.rows) = Len(results)
        /\ \A j \in 1..Len(results) :
              \E k \in 1..Len(report.rows) : report.rows[k] = results[j]
        /\ \A k \in 1..(Len(report.rows) - 1) :
              report.rows[k].net_profit >= report.rows[k + 1].net_profit
        /\ Profitable(report.rows) # <<>> =>
              \A k \in 1..Len(report.rows) :
                  report.rows[k].is_profitable =>
                      Head(Profitable(report.rows)).net_profit
                          >= report.rows[k].net_profit

\* Three results, two of them profitable with different profits, and the
\* first collection is not the first row.
C20_Witness ==
    /\ report.printed
    /\ Len(report.rows) = 3
    /\ report.rows[1].collection # 1
    /\ Len(Profitable(report.rows)) >= 2
    /\ report.rows[1].net_profit > report.rows[2].net_profit

\* smart_scanner.py: no result is built from a covert price of 0, the one
\* value for which line 208 would divide by zero.
ScannerRatioDefined ==
    \A k \in 1..Len(results) :
        /\ results[k].covert_price > 0
        /\ results[k].price_ratio.den # 0

\* C29: a candidate whose price is 0, fetched or cached, counts like one
\* without a price: every result has a covert price and a gold price above
\* 0, so that the division of line 208 has a divisor other than 0, and a
\* list none of whose candidates has a price above 0 leaves the collection
\* without a result.
C29_ZeroPriceIsAbsent ==
    /\ [](\A k \in 1..Len(results) :
             /\ results[k].covert_price > 0
             /\ results[k].gold_price > 0
             /\ results[k].price_ratio.den # 0)
    /\ [][(/\ EndsList
            /\ \/ /\ scan.phase = "covert"
                  /\ AbovePriced(table[scan.col].covert, price_cache') = {}
               \/ /\ scan.phase = "gold"
                  /\ AbovePriced(table[scan.col].gold, price_cache') = {}) =>
              /\ results' = results
              /\ scan' = StartCollection(scan.col + 1)
              /\ pc' = PcAfter(scan.col)]_vars

\* The scan is over; the only covert name of the third collection has the
\* price 0 and the collection has no result, while another has one.
C29_Witness ==
    /\ report.printed
    /\ 1 \in DOMAIN price_cache
    /\ price_cache[1] = 0
    /\ 4 \in DOMAIN price_cache
    /\ price_cache[4] > 0
    /\ \A k \in 1..Len(results) : results[k].collection # 3
    /\ results # <<>>

(***************************************************************************)
(* Properties of tradeup_scanner.run_full_scan (SpecTradeup)               *)
(***************************************************************************)
\* The step in which a lookup returns and the evaluation of a collection
\* ends with it.
TuEnds ==
    /\ tu_pc = "eval"
    /\ tu_scan'.col = tu_scan.col + 1
    /\ tu_ret'.outcome \in {"cached", "fetched", "absent"}

\* The row that the step adds to tu_results, when it adds one.
TuNewRow == tu_results'[Len(tu_results')]

\* C13: whenever at least one covert candidate and at least one gold
\* candidate of a collection yield a price, its evaluation returns a result,
\* computed from the lowest of the prices that were yielded, even if the
\* lookups of other candidates returned None.
C13_PricedCandidatesGiveResult ==
    [][(/\ TuEnds
        /\ AbovePriced(TuTable[tu_scan.col].covert, tu_price_cache') # {}
        /\ AbovePriced(TuTable[tu_scan.col].gold, tu_price_cache') # {}) =>
          /\ Len(tu_results') = Len(tu_results) + 1
          /\ TuNewRow.collection = tu_scan.col
          /\ IsCheapest(TuNewRow.covert_skin, TuNewRow.covert_price,
                        TuTable[tu_scan.col].covert, tu_price_cache')
          /\ IsCheapestAbove0(TuNewRow.cheapest_gold, TuNewRow.gold_price,
                              TuTable[tu_scan.col].gold, tu_price_cache')
      ]_vars

\* tradeup_scanner.py: a result is returned exactly when every covert
\* candidate yielded a price and some gold candidate a price above 0, and
\* then from the lowest prices.
TuResultNeedsEveryCovert ==
    [][TuEnds =>
          LET covert == TuTable[tu_scan.col].covert
              gold == TuTable[tu_scan.col].gold
          IN  IF /\ Priced(covert, tu_price_cache') = 1..Len(covert)
                 /\ AbovePriced(gold, tu_price_cache') # {}
              THEN /\ Len(tu_results') = Len(tu_results) + 1
                   /\ IsCheapest(TuNewRow.covert_skin, TuNewRow.covert_price,
                                 covert, tu_price_cache')
                   /\ IsCheapestAbove0(TuNewRow.cheapest_gold,
                                       TuNewRow.gold_price,
                                       gold, tu_price_cache')
              ELSE tu_results' = tu_results
      ]_vars

\* tradeup_scanner.py: an exception in one collection leaves the results
\* alone and the loop goes on with the next collection.
TuCollectionIsolation ==
    [][TuRaises(0) =>
          /\ tu_results' = tu_results
          /\ tu_scan' = TuStartCollection(tu_scan.col + 1)
          /\ tu_pc' = IF tu_scan.col < Len(TuTable) THEN "eval" ELSE "report"
      ]_vars

\* tradeup_scanner.py: the returned frame is in non-increasing order of
\* net_profit and holds the results at or above min_profit.
TuFrameSorted ==
    tu_df.returned =>
        /\ \A k \in 1..(Len(tu_df.rows) - 1) :
              tu_df.rows[k].net_profit >= tu_df.rows[k + 1].net_profit
        /\ \A k \in 1..Len(tu_df.rows) :
              /\ tu_df.rows[k].net_profit >= 50000
              /\ \E j \in 1..Len(tu_results) : tu_results[j] = tu_df.rows[k]

\* tradeup_scanner.py: no ratio of a result comes from a division by zero,
\* and the ratio of a covert price of 0 is 0.
TuRatioDefined ==
    \A k \in 1..Len(tu_results) :
        /\ tu_results[k].price_ratio.den # 0
        /\ tu_results[k].profit_margin_pct.den # 0
        /\ tu_results[k].covert_price = 0 =>
              tu_results[k].price_ratio.num = 0

\* A result of the tradeup scanner for a covert price of 0 is never seen.
TuZeroCovertNeverSeen ==
    \A k \in 1..Len(tu_results) : tu_results[k].covert_price # 0

\* C19: a keyboard interruption during a scan ends the loop over the
\* collections, and the results collected so far are kept and go on to the
\* report; they are never discarded.
C19_InterruptKeepsPartialResults ==
    [][(TuInterrupt /\ tu_results # <<>>) =>
          /\ tu_results' = tu_results
          /\ tu_pc' = "report"]_vars

\* C22: evaluate_collection returns None for a collection that is not
\* profitable: no result with a net profit that is not above 0 is returned
\* to run_full_scan.
C22_UnprofitableIsNone ==
    \A k \in 1..Len(tu_results) :
        /\ tu_results[k].is_profitable
        /\ tu_results[k].net_profit > 0

(***************************************************************************)
(* Properties of the profit arithmetic (SpecManual)                        *)
(***************************************************************************)
\* The amounts of row r are those of the formulas, in hundredths of a cent.
AmountsExact(r) ==
    /\ r.cost_5x_covert = 500 * r.covert_price
    /\ r.gold_after_fee = 87 * r.gold_price
    /\ r.net_profit = r.gold_after_fee - r.cost_5x_covert

\* C16: for covert_price > 0 and gold_price >= 0 in whole cents a result
\* has cost_5x = 5 * covert_price, gold_after_fee = gold_price * (1 - 0.13)
\* and net_profit = gold_after_fee - cost_5x exactly, and is_profitable
\* holds exactly when that net_profit is above 0: at 0 it does not.
C16_ProfitArithmetic ==
    \A k \in 1..Len(ma_results) :
        LET r == ma_results[k]
        IN  r.covert_price > 0 =>
                /\ AmountsExact(r)
                /\ r.rounding = 0
                /\ r.is_profitable = (r.net_profit > 0)

\* The same away from break-even, where rounding cannot reach the sign.
ProfitArithmeticOffBreakEven ==
    \A k \in 1..Len(ma_results) :
        LET r == ma_results[k]
        IN  (r.covert_price > 0 /\ 87 * r.gold_price # 500 * r.covert_price) =>
                /\ AmountsExact(r)
                /\ r.is_profitable = (r.net_profit > 0)

\* covert 8.00 with gold 30.00: 26.10 after the fee, a loss of 13.90.
LossScenarioNeverSeen ==
    ~ \E k \in 1..Len(ma_results) :
          /\ ma_results[k].covert_price = 800
          /\ ma_results[k].gold_price = 3000
          /\ ma_results[k].gold_after_fee = 261000
          /\ ma_results[k].net_profit = -139000
          /\ ~ma_results[k].is_profitable

AnalyzerPaced == an_shortestGap = None \/ an_shortestGap >= REQUEST_DELAY

\* tradeup_scanner.py alone: two consecutive requests are at least TU_SLEEP
\* apart.
TradeupPaced == tu_shortestGap = None \/ tu_shortestGap >= TU_SLEEP

\* C2: between two consecutive requests of a fetcher its minimum interval
\* passes (BASE_DELAY in smart_scanner, REQUEST_DELAY in collection_analyzer,
\* TU_SLEEP in tradeup_scanner), whatever the earlier request came to.
C2_Pacing == ScannerPaced /\ AnalyzerPaced /\ TradeupPaced

\* tradeup_scanner.py: a cache hit returns the value stored by the fetch.
TuCacheRoundTrip ==
    tu_ret.outcome = "cached" =>
        /\ tu_ret.item \in DOMAIN tu_price_cache
        /\ tu_ret.val = tu_price_cache[tu_ret.item]

\* tradeup_scanner.py: a cache hit sends nothing and does not sleep.
TuCacheHitSendsNothing ==
    [][\A item \in DOMAIN tu_price_cache :
          TuCached(item) => (tu_requests' = tu_requests /\ tu_elapsed' = tu_elapsed)
      ]_vars

\* tradeup_scanner.py: the module's price_cache keeps every entry, and a
\* get_market_price that does not come back with a parsed price (malformed
\* payloads included) returns None after its one request and stores nothing.
TuCacheFrame ==
    [][/\ \A i \in DOMAIN tu_price_cache :
             /\ i \in DOMAIN tu_price_cache'
             /\ tu_price_cache'[i] = tu_price_cache[i]
       /\ \A item \in Items, lat \in Latencies, k \in FailKinds :
             TuRequest(item, lat, [kind |-> k, price |-> None]) =>
                 /\ tu_price_cache' = tu_price_cache
                 /\ tu_requests' = tu_requests + 1
                 /\ tu_ret'.val = None]_vars

(***************************************************************************)
(* Properties of the scraper and the rate limit handler (SpecScraping)     *)
(***************************************************************************)
\* C4: rate_limit_hits is reset only by the fifth success in a row since
\* the last rate limit, and five successes in a row always reset it.
C4_ResetAfterRun ==
    /\ resetRun = None \/ resetRun >= RESET_EVERY
    /\ run >= RESET_EVERY => rate_limit_hits = 0

\* The waits of get_wait_time for 1, 2, 3, 4 and 5 hits.
BackoffTable == <<60, 120, 240, 480, 600>>

\* C5: the waits of get_wait_time for 1, 2, 3, ... hits never decrease,
\* are 60, 120, 240, 480 and then 600, and never exceed max_wait_time, for
\* every number of hits the handler reaches.
C5_BackoffMonotone ==
    /\ \A h \in 1..rate_limit_hits :
          /\ get_wait_time(h) <= get_wait_time(h + 1)
          /\ get_wait_time(h) <= max_wait_time
          /\ get_wait_time(h) = BackoffTable[Min(h, Len(BackoffTable))]
    /\ lastWait.computed <= max_wait_time

C5_Witness ==
    /\ rate_limit_hits > Len(BackoffTable)
    /\ lastWait.computed = max_wait_time

\* C6: with a VPN configured, two calls of switch_vpn_server are at least
\* min_ip_switch_interval apart.
C6_RotationRateLimited ==
    shortestSwitchGap = None \/ shortestSwitchGap >= min_ip_switch_interval

\* C7: handle_rate_limit waits half of the computed wait after a switch
\* that succeeded, and the whole computed wait after a switch that failed
\* or when no switch was tried.
C7_HalfWaitAfterSwitch ==
    lastWait.switch # "never" =>
        IF lastWait.switch = "ok"
        THEN 2 * lastWait.waited = lastWait.computed
        ELSE lastWait.waited = lastWait.computed

C7_Witness ==
    /\ lastWait.switch = "ok"
    /\ lastWait.computed = 2 * base_wait_time
    /\ lastWait.waited = base_wait_time

(***************************************************************************)
(* Properties of the cache file under a failing disk (SpecLong)            *)
(***************************************************************************)
\* C8: a save_cache that fails to write raises nothing: the fetch that
\* started it returns its price, the collection and the scan go on, and the
\* report is produced.
C8_FlushFailureIsSilent ==
    /\ ret.outcome # "raised"
    /\ pc # "crashed"

\* C9: save_cache is called with every SAVE_EVERY-th fetched price, so
\* fewer than SAVE_EVERY fetched prices are ever waiting to be saved, and
\* it is called when the scan ends.
C9_FlushEveryN ==
    /\ since_flush < SAVE_EVERY
    /\ pc = "done" => cache_file = FileOf(price_cache)

\* C10: when the process stops inside save_cache the file holds a complete
\* mapping, the earlier one or the new one, and the next load_cache succeeds.
C10_AtomicWrite ==
    pc = "stopped" => ~LoadRaises(cache_file)

\* Every key of mapping a is a key of mapping b, with the same price.
SubMapping(a, b) ==
    \A i \in DOMAIN a : i \in DOMAIN b /\ b[i] = a[i]

\* C28: after the startup load and while save_cache is not at work, every
\* price that the cache file holds is in the in-memory cache under the same
\* name, and when save_cache has completed the file holds exactly the
\* in-memory cache.
C28_FileWithinMemory ==
    /\ [](pc \in {"fetch", "report", "done"} =>
             SubMapping(load_cache(cache_file), price_cache))
    /\ [][SaveDumpOk =>
             /\ cache_file'.state = "ok"
             /\ cache_file'.data = price_cache']_vars

\* A periodic save_cache has completed and a further price has been fetched
\* since: the file holds some of the prices in memory, not all.
C28_Witness ==
    /\ pc = "fetch"
    /\ cache_file.state = "ok"
    /\ DOMAIN cache_file.data # {}
    /\ DOMAIN cache_file.data # DOMAIN price_cache

\* smart_scanner.py with a working disk: the file is never left partial
\* outside save_cache.
FileWellFormedOutsideSave ==
    pc \in {"fetch", "report", "done"} =>
        /\ cache_file.state # "corrupt"
        /\ SubMapping(load_cache(cache_file), price_cache)

(***************************************************************************)
(* Properties of market_scraper.py (SpecMarket)                            *)
(***************************************************************************)
\* C30: a cache miss of get_lowest_buy_order sends no order-histogram
\* request: each of the 3 attempts fails in the item-id lookup, the call
\* sleeps 12 s and then 24 s and returns what one price-overview request
\* gives; request_count stays 0, so the save of every 5th request never
\* happens and the file is written by the explicit save_cache only.
C30_FallbackOnly ==
    /\ [](/\ mk_run.histogram = 0
          /\ mk_request_count = 0
          /\ mk_run.saves = 0
          /\ mk_ret.outcome \in {"none", "cached", "fallback"}
          /\ mk_ret.outcome = "fallback" =>
                /\ mk_ret.sleeps = <<12, 24>>
                /\ mk_ret.fallbacks = 1
                /\ mk_ret.histogram = 0)
    /\ [][/\ mk_file' # mk_file => (mk_pc = "save" /\ mk_pc' = "done")
          /\ (mk_pc = "fallback" /\ mk_pc' # "fallback") =>
                \E resp \in MkResponses :
                    /\ mk_ret'.val = resp.price
                    /\ mk_cache' = IF resp.kind = "ok"
                                   THEN StorePrice(mk_cache, mk_ret'.item,
                                                   resp.price)
                                   ELSE mk_cache]_vars

\* A miss has returned the price of the fallback after sleeps of 12 s and
\* 24 s, and the file does not hold that price yet.
C30_Witness ==
    /\ mk_ret.outcome = "fallback"
    /\ mk_ret.val # None
    /\ mk_ret.sleeps = <<12, 24>>
    /\ mk_ret.item \in DOMAIN mk_cache
    /\ mk_ret.item \notin DOMAIN load_cache(mk_file)

(***************************************************************************)
(* Properties of comprehensive_knife_list.py (SpecChecklist)               *)
(***************************************************************************)
\* The entries of the checklist before the last call that stand for the
\* combination the call named.
MarkMatches ==
    {i \in 1..Len(kn_mark.before) : KeyOf(kn_mark.before[i]) = kn_mark.key}

\* C23: mark_knife_found returns True exactly when an entry of the checklist
\* stands for the combination; then the first such entry has found = 1 and
\* the quantity, price and time of the call, and no other entry is changed;
\* with no such entry it returns False and the checklist is as it was.  No
\* call takes found from 1 back to 0.
C23_MarkKnifeFound ==
    /\ [](kn_mark.called =>
            /\ kn_mark.ret = (MarkMatches # {})
            /\ Len(kn_checklist) = Len(kn_mark.before)
            /\ MarkMatches = {} => kn_checklist = kn_mark.before
            /\ MarkMatches # {} =>
                  LET first == CHOOSE i \in MarkMatches :
                                   \A j \in MarkMatches : i <= j
                  IN  /\ kn_checklist[first].found = 1
                      /\ kn_checklist[first].quantity = kn_mark.quantity
                      /\ kn_checklist[first].price = kn_mark.price
                      /\ kn_checklist[first].last_updated = Now
                      /\ KeyOf(kn_checklist[first]) = kn_mark.key
                      /\ \A i \in 1..Len(kn_checklist) :
                            i # first => kn_checklist[i] = kn_mark.before[i])
    /\ [][\A i \in 1..Len(kn_checklist) :
              kn_checklist[i].found = 1 => kn_checklist'[i].found = 1]_vars

\* A call has marked an entry while another entry was found already.
C23_Witness ==
    /\ kn_mark.called
    /\ kn_mark.ret
    /\ \E i \in 1..Len(kn_mark.before) :
          /\ kn_mark.before[i].found = 1
          /\ KeyOf(kn_mark.before[i]) # kn_mark.key
          /\ kn_checklist[i].found = 1

\* A call that names a combination the checklist does not hold returns
\* False, also when entries are found already.
MarkOffChecklist ==
    /\ kn_mark.called
    /\ ~kn_mark.ret
    /\ \E i \in 1..Len(kn_checklist) : kn_checklist[i].found = 1

(***************************************************************************)
(* Properties of intelligent_knife_scraper.py (SpecKnives, SpecBatches)    *)
(***************************************************************************)
\* C21: a search and its retries load the page at most 4 times and call
\* handle_rate_limit at most 4 times, so that rate_limit_hits grows by at
\* most 4; the call made with retry_count = 4 returns [] without loading
\* the page.
C21_RetriesBounded ==
    /\ [](/\ retry_count <= MAX_SCRAPE_RETRIES + 1
          /\ kn_call.loads <= 4
          /\ kn_call.handles <= 4)
    /\ [][/\ kn_call'.handles > kn_call.handles =>
                rate_limit_hits' = rate_limit_hits + 1
          /\ (kn_pc = "search" /\ retry_count = 4) =>
                /\ kn_last'.gaveup
                /\ ~kn_last'.loaded
                /\ kn_last'.returned = <<>>
                /\ kn_checklist' = kn_checklist
                /\ kn_collected' = kn_collected]_vars

\* The bound of C21 holds for the searches under which every init_browser
\* succeeded: no call of the search is at line 198 after a caught exception
\* and none was, so the calls waiting are as many as the retries.
RetriesBoundedWhileRestartsSucceed ==
    (~kn_call.down /\ Len(kn_call.stack) = kn_call.handles) =>
        /\ kn_call.loads = retry_count
        /\ kn_call.handles = retry_count
        /\ kn_call.handles <= 4

\* Every retry is made with a larger retry_count than the call that makes
\* it, and the calls waiting are as many as retry_count says.
RetryDepth ==
    /\ Len(kn_call.stack) = retry_count
    /\ retry_count <= MAX_SCRAPE_RETRIES + 1

\* C24: a search whose first attempt was rate limited returns [] to main
\* also when a retry succeeds; the knives of the retry are in
\* collected_knives and marked found in the checklist all the same, and
\* successful_scrapes is incremented.
C24_RetryResultsDropped ==
    /\ [](kn_last.retried => kn_last.returned = <<>>)
    /\ [][(/\ kn_pc = "search"
           /\ retry_count > 0
           /\ retry_count' = 0
           /\ kn_last'.recorded # <<>>) =>
              /\ kn_last'.retried
              /\ kn_last'.returned = <<>>
              /\ successful_scrapes' = successful_scrapes + 1
              /\ \A i \in 1..Len(kn_last'.recorded) :
                    LET key == KeyOf(kn_last'.recorded[i])
                    IN  /\ key \notin kn_collected
                        /\ key \in kn_collected'
                        /\ \A k \in 1..Len(kn_checklist') :
                              KeyOf(kn_checklist'[k]) = key =>
                                  /\ kn_checklist'[k].found = 1
                                  /\ kn_checklist'[k].price =
                                        kn_last'.recorded[i].price]_vars

\* A retry has found a knife of the checklist, which is now marked found
\* and collected, and main has received [].
C24_Witness ==
    /\ kn_last.retried
    /\ kn_last.returned = <<>>
    /\ \E i \in 1..Len(kn_last.recorded), k \in 1..Len(kn_checklist) :
          /\ KeyOf(kn_checklist[k]) = KeyOf(kn_last.recorded[i])
          /\ kn_checklist[k].found = 1
          /\ KeyOf(kn_checklist[k]) \in kn_collected
    /\ successful_scrapes > 0

\* C27: no combination is returned as a new listing by scrape_search more
\* than once, over all queries and retries; collected_knives only grows;
\* every combination ever returned is in collected_knives.
C27_NoCombinationTwice ==
    /\ [](/\ ~kn_returned.twice
          /\ kn_returned.keys \subseteq kn_collected
          /\ \A i, j \in 1..Len(kn_last.recorded) :
                KeyOf(kn_last.recorded[i]) = KeyOf(kn_last.recorded[j]) => i = j)
    /\ [][/\ kn_collected \subseteq kn_collected'
          /\ \A i \in 1..Len(kn_last'.recorded) :
                kn_last' # kn_last =>
                    KeyOf(kn_last'.recorded[i]) \notin kn_collected]_vars

\* A page that held a collected combination again, twice over, has been
\* searched after the combination was returned: the search returned nothing
\* new, or only other combinations.
C27_Witness ==
    /\ kn_returned.keys # {}
    /\ \E key \in kn_returned.keys :
          /\ \A i \in 1..Len(kn_last.recorded) :
                KeyOf(kn_last.recorded[i]) # key
          /\ key[1] = kn_last.query.expected_knife
          /\ key[2] = kn_last.query.expected_finish
          /\ kn_last.loaded
          /\ successful_scrapes >= 2

\* C25: with no throttling and searches that return a listing for each
\* combination of the checklist, the batch loop marks every entry found and
\* ends, for every knife type, Bayonet among them: an unthrottled search
\* leaves every entry of its query found, and the loop does not go on with
\* entries unfound that were searched.
C25_EveryTypeGetsFound ==
    [][(/\ kn_pc = "search"
        /\ kn_call = NoChain
        /\ successful_scrapes' = successful_scrapes + 1) =>
          (\A k \in 1..Len(kn_checklist') :
              (/\ kn_checklist'[k].knife_type = KnQuery.expected_knife
               /\ kn_checklist'[k].finish = KnQuery.expected_finish) =>
                  kn_checklist'[k].found = 1)]_vars

\* No entry of a type whose name does not hold "knife" is ever marked, so
\* the loop never finds the checklist complete.
BayonetNeverFound ==
    /\ \A k \in 1..Len(kn_checklist) :
          kn_checklist[k].knife_type = Bayonet => kn_checklist[k].found = 0
    /\ kn_pc # "done"

\* The entries of the other type are all found, after searches that were
\* not throttled.
BowieKnifeAllFound ==
    /\ \A k \in 1..Len(kn_checklist) :
          kn_checklist[k].knife_type = BowieKnife => kn_checklist[k].found = 1
    /\ kn_pc = "search"
    /\ KnQuery.expected_knife = Bayonet

\* The places of the unfound entries of a query's group, and of the first.
UnfoundOf(checklist, q) ==
    {k \in 1..Len(checklist) :
        /\ checklist[k].found = 0
        /\ checklist[k].knife_type = q.expected_knife
        /\ checklist[k].finish = q.expected_finish}

FirstUnfound(checklist, q) ==
    CHOOSE k \in UnfoundOf(checklist, q) :
        \A j \in UnfoundOf(checklist, q) : k <= j

\* The groups with an unfound entry before place k.
OpenGroupsBefore(checklist, k) ==
    {<<checklist[j].knife_type, checklist[j].finish>> :
        j \in {i \in 1..(k - 1) : checklist[i].found = 0}}

\* queries is the batch that C26 describes for the checklist: at most
\* batch_size queries, one for each of the first batch_size groups that
\* have an unfound entry, in the order of the checklist.
FirstGroups(checklist, queries, batch_size) ==
    /\ Len(queries) <= batch_size
    /\ \A i \in 1..Len(queries) :
          /\ UnfoundOf(checklist, queries[i]) # {}
          /\ queries[i].search_query =
                queries[i].expected_knife \o queries[i].expected_finish
          /\ Cardinality(OpenGroupsBefore(checklist,
                             FirstUnfound(checklist, queries[i]))) = i - 1
    /\ \A k \in 1..Len(checklist) :
          checklist[k].found = 0 =>
              \/ \E i \in 1..Len(queries) : k \in UnfoundOf(checklist, queries[i])
              \/ Cardinality(OpenGroupsBefore(checklist, k)) >= batch_size

\* C26: every batch holds the first batch_size groups of the checklist that
\* have an unfound entry, in checklist order; a batch in which nothing was
\* marked is followed by the same batch; a group is searched only when
\* fewer than batch_size groups before it have an unfound entry, so a group
\* beyond the first batch_size only after an earlier one is fully found.
C26_BatchesInChecklistOrder ==
    /\ [](kn_pc = "search" =>
            /\ UnfoundOf(kn_checklist, KnQuery) # {} =>
                  Cardinality(OpenGroupsBefore(kn_checklist,
                      FirstUnfound(kn_checklist, KnQuery))) < BATCH_SIZE
            /\ ~kn_prev.marked =>
                  FirstGroups(kn_checklist, kn_queries, BATCH_SIZE))
    /\ [][kn_pc = "batch" =>
              /\ FirstGroups(kn_checklist, kn_queries', BATCH_SIZE)
              /\ (kn_prev.batches = 1 /\ ~kn_prev.marked) =>
                    kn_queries' = kn_queries]_vars

\* The last of the twelve groups is searched, in a second batch, after four
\* groups of the first batch were found.
C26_Witness ==
    /\ kn_pc = "search"
    /\ KnQuery.expected_knife = BowieKnife
    /\ KnQuery.expected_finish = KnFinishes[Len(KnFinishes)]
    /\ Len(kn_queries) < BATCH_SIZE
    /\ Cardinality({k \in 1..Len(kn_checklist) : kn_checklist[k].found = 1}) >= 4

\* A batch in which every search came back empty has been followed by the
\* next batch.
BatchRepeated ==
    /\ kn_pc = "search"
    /\ kn_prev.batches = 1
    /\ ~kn_prev.marked
    /\ kn_last.query = kn_queries[Len(kn_queries)]
    /\ kn_qi = 1
    /\ Len(kn_queries) = BATCH_SIZE

====
